---- MODULE Spec2Model ----
(***************************************************************************)
(* Model of the wedding_playlist pipeline: track deduplication (main.py),  *)
(* metadata clustering eligibility (music_analyzer.py), batched AI         *)
(* validation with fallback and logging (ai_validator.py), and the final   *)
(* selection of party tracks.                                              *)
(***************************************************************************)
EXTENDS Integers, Sequences, FiniteSets, TLC

VARIABLES
    client,            \* AIValidator.client: TRUE when DEEPSEEK_API_KEY was set
    tracks,            \* the list of track dicts handed to validate_tracks_for_party
    batch_size,        \* batch_size argument
    i,                 \* loop index of validate_tracks_for_party (0-based)
    validated_tracks,  \* list built by validate_tracks_for_party
    vpc,               \* position of validate_tracks_for_party
    pending,           \* the batch whose oracle call is outstanding
    oracle_calls,      \* number of chat.completions.create invocations
    human_log,         \* entries of the ai_validation_<ts>.log files
    json_log,          \* entries of the ai_detailed_<ts>.json files
    now,               \* wall clock, in seconds
    faults,            \* number of log-sink I/O failures so far
    all_tracks,        \* top_tracks + saved_tracks
    n_tracks,          \* the --tracks option
    unique_tracks,     \* the deduplicated list
    dpc,               \* position of the deduplication step
    df,                \* the rows handed to cluster_tracks
    n_clusters,        \* the --clusters option
    df_clustered,      \* the labeled rows cluster_tracks returns
    cpc,               \* position of cluster_tracks
    cluster_error,     \* the exception cluster_tracks raised, if any
    cluster_analysis,  \* the cluster summary cluster_tracks returns
    min_score,         \* the --ai-score option
    party_tracks,      \* the list filter_party_tracks returns
    spc,               \* position of filter_party_tracks
    gpc,               \* position of the generate command
    network,           \* LastFMEnricher.network: TRUE when a network object exists
    lf_tracks,         \* the list handed to enrich_tracks
    enriched_tracks,   \* the list enrich_tracks builds
    lookups,           \* what the Last.fm service did for each track so far
    epc,               \* position of enrich_tracks
    sv_limit,          \* get_saved_tracks: the limit argument
    sv_tracks,         \* get_saved_tracks: the list tracks
    offset,            \* get_saved_tracks: the offset of the next page request
    page_requests,     \* the page requests made so far, with what each got
    ppc,               \* position of get_saved_tracks
    pl_tracks,         \* create_playlist: the tracks of the playlist file
    track_ids,         \* create_playlist: the ids extracted from them
    playlist_created,  \* create_playlist: user_playlist_create has returned
    li,                \* create_playlist: the loop index i, in ids
    added_count,       \* create_playlist: the ids counted as added
    attempts,          \* the playlist_add_items calls made so far
    lpc                \* position of the create_playlist command

vvars == <<client, tracks, batch_size, i, validated_tracks, vpc, pending,
           oracle_calls, human_log, json_log, now, faults>>

dvars == <<all_tracks, n_tracks, unique_tracks, dpc>>

cvars == <<df, n_clusters, df_clustered, cpc, cluster_error, cluster_analysis>>

svars == <<min_score, party_tracks, spc>>

evars == <<network, lf_tracks, enriched_tracks, lookups, epc>>

\* the commands and helpers outside the generate pipeline
pvars == <<sv_limit, sv_tracks, offset, page_requests, ppc>>

lvars == <<pl_tracks, track_ids, playlist_created, li, added_count, attempts, lpc>>

xvars == <<evars, pvars, lvars>>

vars == <<vvars, dvars, cvars, svars, gpc, xvars>>

----------------------------------------------------------------------------
(* Bounds *)

MaxTracks == 3
MaxBatchSize == 3
MaxEntries == 2
MaxClock == 1
MaxFaults == 2
MaxFetched == 3
MaxRequested == 2
MaxClusters == 3
MaxPrepared == 2
MaxEnriched == 2
MaxSummaryRows == 5
MaxStyleRows == 2
MaxLimit == 5
MaxPageExtra == 1
MaxPlaylistTracks == 201

----------------------------------------------------------------------------
(* Python values *)

\* a key that is not in the dict
Absent == "<absent>"
\* the None object
NoneVal == "<None>"

Num(n) == [kind |-> "num", val |-> n]
StrScore == [kind |-> "str", val |-> 0]
NoneScore == [kind |-> "none", val |-> 0]
AbsentScore == [kind |-> "absent", val |-> 0]

Min(a, b) == IF a <= b THEN a ELSE b

TrackIds == <<"t1", "t2", "t3", "t4", "t5", "t6", "t7">>

\* a track record as df_clustered.to_dict('records') yields it: no ai_* keys
FreshTrack(k) ==
    [id |-> TrackIds[k], ai_party_score |-> AbsentScore,
     ai_reasoning |-> Absent, ai_recommendation |-> Absent]

FreshTracks(n) == [k \in 1..n |-> FreshTrack(k)]

----------------------------------------------------------------------------
(* The oracle's reply text, as a sequence of lexical chunks *)

LBr == [tok |-> "[", track_number |-> 0, party_score |-> AbsentScore, reasoning |-> Absent, recommendation |-> Absent]
RBr == [tok |-> "]", track_number |-> 0, party_score |-> AbsentScore, reasoning |-> Absent, recommendation |-> Absent]
Txt == [tok |-> "txt", track_number |-> 0, party_score |-> AbsentScore, reasoning |-> Absent, recommendation |-> Absent]
\* a JSON value that is not an object
Scalar == [tok |-> "num", track_number |-> 0, party_score |-> AbsentScore, reasoning |-> Absent, recommendation |-> Absent]
\* a decoded nested array
ArrVal == [tok |-> "arr", track_number |-> 0, party_score |-> AbsentScore, reasoning |-> Absent, recommendation |-> Absent]

\* a decoded object: its track_number (0 for none) and the three judgment keys
Obj(n, s, r, c) ==
    [tok |-> "obj", track_number |-> n, party_score |-> s, reasoning |-> r, recommendation |-> c]

\* an entry as asked for (numbered 1), one with the reasoning alone, one
\* numbered 2 without reasoning and with values outside the schema
GoodEntry == Obj(1, Num(8), "Great dance track", "yes")
SparseEntry == Obj(0, AbsentScore, "Great dance track", Absent)
MismatchEntry == Obj(2, StrScore, Absent, "definitely")

Entries == {GoodEntry, SparseEntry, MismatchEntry}

RECURSIVE SeqsUpTo(_, _)
SeqsUpTo(S, n) ==
    IF n = 0 THEN {<<>>}
    ELSE LET shorter == SeqsUpTo(S, n - 1)
         IN  shorter \cup {Append(s, e) : s \in {t \in shorter : Len(t) = n - 1}, e \in S}

Arrays == {<<LBr>> \o es \o <<RBr>> : es \in SeqsUpTo(Entries, MaxEntries)}

MalformedReplies ==
    { <<>>, <<Txt>>, <<RBr, LBr>>, <<LBr>>, <<LBr, Txt, RBr>>,
      <<LBr, LBr, RBr, RBr>>, <<LBr, GoodEntry, RBr, LBr, GoodEntry, RBr>> }

\* arrays with an entry that is not an object: alone, and behind an object
ScalarReplies == {<<LBr, Scalar, RBr>>, <<LBr, GoodEntry, Scalar, RBr>>}

ReplyTexts ==
    Arrays \cup {<<Txt>> \o a \o <<Txt>> : a \in {b \in Arrays : Len(b) <= 3}}
           \cup ScalarReplies \cup MalformedReplies

\* what chat.completions.create can do: raise, or return a message whose
\* content is None or a text
OracleOutcomes ==
    {[kind |-> "raise", content |-> <<>>], [kind |-> "none", content |-> <<>>]}
    \cup {[kind |-> "text", content |-> r] : r \in ReplyTexts}

----------------------------------------------------------------------------
(* str.find / str.rfind / json.loads on the chunk sequence *)

Find(s, t) ==
    IF \E k \in 1..Len(s) : s[k].tok = t
    THEN (CHOOSE k \in 1..Len(s) : s[k].tok = t /\ \A j \in 1..(k - 1) : s[j].tok # t) - 1
    ELSE -1

RFind(s, t) ==
    IF \E k \in 1..Len(s) : s[k].tok = t
    THEN (CHOOSE k \in 1..Len(s) : s[k].tok = t /\ \A j \in (k + 1)..Len(s) : s[j].tok # t) - 1
    ELSE -1

\* s[a:b] for 0 <= a <= b
Slice(s, a, b) == SubSeq(s, a + 1, Min(b, Len(s)))

\* index of the "]" closing the "[" at position p, or 0
RECURSIVE MatchClose(_, _, _)
MatchClose(s, p, depth) ==
    IF p > Len(s) THEN 0
    ELSE IF s[p].tok = "[" THEN MatchClose(s, p + 1, depth + 1)
    ELSE IF s[p].tok = "]"
         THEN IF depth = 1 THEN p ELSE MatchClose(s, p + 1, depth - 1)
    ELSE MatchClose(s, p + 1, depth)

\* decode a run of JSON values; ok is FALSE when the run is not valid JSON
RECURSIVE DecodeValues(_)
DecodeValues(s) ==
    IF s = <<>> THEN [ok |-> TRUE, vals |-> <<>>]
    ELSE IF s[1].tok \in {"num", "obj"}
         THEN LET rest == DecodeValues(Tail(s))
              IN  [ok |-> rest.ok, vals |-> <<s[1]>> \o rest.vals]
    ELSE IF s[1].tok = "["
         THEN LET c == MatchClose(s, 1, 0)
              IN  IF c = 0 THEN [ok |-> FALSE, vals |-> <<>>]
                  ELSE LET inner == DecodeValues(SubSeq(s, 2, c - 1))
                           rest == DecodeValues(SubSeq(s, c + 1, Len(s)))
                       IN  [ok |-> inner.ok /\ rest.ok, vals |-> <<ArrVal>> \o rest.vals]
    ELSE [ok |-> FALSE, vals |-> <<>>]

\* json.loads of a span that starts with "[": a single array, nothing after it
JsonLoads(span) ==
    LET c == MatchClose(span, 1, 0)
    IN  IF c # Len(span) \/ c = 0 THEN [ok |-> FALSE, vals |-> <<>>]
        ELSE DecodeValues(SubSeq(span, 2, c - 1))

----------------------------------------------------------------------------
(* AIValidator._parse_ai_response *)

FallbackTriple(reason) ==
    [ai_party_score |-> Num(5), ai_reasoning |-> reason, ai_recommendation |-> "maybe"]

\* dict.update with the three ai_* keys
Update(track, triple) ==
    [track EXCEPT !.ai_party_score = triple.ai_party_score,
                  !.ai_reasoning = triple.ai_reasoning,
                  !.ai_recommendation = triple.ai_recommendation]

UpdateAll(batch, reason) == [k \in 1..Len(batch) |-> Update(batch[k], FallbackTriple(reason))]

\* result.get(key, default) for the three keys of one decoded entry
EntryTriple(result) ==
    [ai_party_score |-> IF result.party_score.kind = "absent" THEN Num(5) ELSE result.party_score,
     ai_reasoning |-> IF result.reasoning = Absent THEN "No reasoning provided" ELSE result.reasoning,
     ai_recommendation |-> IF result.recommendation = Absent THEN "maybe" ELSE result.recommendation]

\* variant: the fallback spares the tracks updated before the failing entry
ApplyResultsKeepDone(ai_results, batch) ==
    LET n == Min(Len(ai_results), Len(batch))
        bad == {k \in 1..n : ai_results[k].tok # "obj"}
        first == IF bad = {} THEN n + 1 ELSE CHOOSE k \in bad : \A h \in bad : k <= h
    IN  [k \in 1..Len(batch) |->
            IF k < first /\ k <= n THEN Update(batch[k], EntryTriple(ai_results[k]))
            ELSE IF bad # {}
                 THEN Update(batch[k], FallbackTriple("Parsing error: entry is not an object"))
                 ELSE batch[k]]

\* variant: an entry goes to the track its track_number names
ApplyResultsByNumber(ai_results, batch) ==
    LET n == Min(Len(ai_results), Len(batch))
    IN  IF \E k \in 1..n : ai_results[k].tok # "obj"
        THEN UpdateAll(batch, "Parsing error: entry is not an object")
        ELSE [k \in 1..Len(batch) |->
                 LET hits == {j \in 1..Len(ai_results) : ai_results[j].track_number = k}
                 IN  IF hits = {} THEN batch[k]
                     ELSE Update(batch[k],
                                 EntryTriple(ai_results[CHOOSE j \in hits : \A h \in hits : h <= j]))]

\* the for loop over enumerate(ai_results): entries at positions >= len(tracks)
\* are skipped; an entry without .get (not an object) raises AttributeError
ApplyResults(ai_results, batch) ==
    LET n == Min(Len(ai_results), Len(batch))
    IN  IF \E k \in 1..n : ai_results[k].tok # "obj"
        THEN UpdateAll(batch, "Parsing error: entry is not an object")
        ELSE [k \in 1..Len(batch) |->
                 IF k <= n THEN Update(batch[k], EntryTriple(ai_results[k])) ELSE batch[k]]

ParseAiResponse(ai_response, batch) ==
    IF ai_response.kind = "none"
    THEN UpdateAll(batch, "Parsing error: reply has no text")
    ELSE LET text == ai_response.content
             json_start == Find(text, "[")
             json_end == RFind(text, "]") + 1
         IN  IF json_start # -1 /\ json_end > json_start
             THEN LET decoded == JsonLoads(Slice(text, json_start, json_end))
                  IN  IF decoded.ok
                      THEN ApplyResults(decoded.vals, batch)
                      ELSE UpdateAll(batch, "Parsing error: JSON decode error")
             ELSE UpdateAll(batch, "Parsing error: No valid JSON found in response")

ParsingErrorReasons ==
    {"Parsing error: entry is not an object", "Parsing error: reply has no text",
     "Parsing error: JSON decode error", "Parsing error: No valid JSON found in response"}

ApiErrorReasons == {"API Error: oracle call failed", "API Error: log write failed"}

----------------------------------------------------------------------------
(* AIValidator.log_validation_batch *)

\* where a call of log_validation_batch fails: nowhere, when opening the
\* human-readable file, or when writing the JSON file
FaultChoices == {"ok", "human", "json"}

FaultCost(f) == IF f = "ok" THEN 0 ELSE 1

ErrorPrompt == [kind |-> "ERROR", ids |-> <<>>]

LogEntry(ts, batch_number, prompt, ai_response, complete) ==
    [file |-> ts, batch_number |-> batch_number, prompt |-> prompt,
     ai_response |-> ai_response, complete |-> complete]

\* variant: the except branch hands the exception object, not str(e), to the
\* log, so that f.write(ai_response + "\n") raises there too
LogValidationBatchRawError(hl, jl, ts, f, batch_number, prompt, ai_response) ==
    IF f = "human"
    THEN [raised |-> TRUE, human |-> hl, json |-> jl]
    ELSE IF ai_response.kind \in {"none", "error"}
         THEN [raised |-> TRUE,
               human |-> Append(hl, LogEntry(ts, batch_number, prompt, ai_response, FALSE)),
               json |-> jl]
    ELSE IF f = "json"
         THEN [raised |-> TRUE,
               human |-> Append(hl, LogEntry(ts, batch_number, prompt, ai_response, TRUE)),
               json |-> jl]
    ELSE [raised |-> FALSE,
          human |-> Append(hl, LogEntry(ts, batch_number, prompt, ai_response, TRUE)),
          json |-> Append(jl, LogEntry(ts, batch_number, prompt, ai_response, TRUE))]

\* variant: a log file that cannot be opened is passed over in silence
LogValidationBatchSilent(hl, jl, ts, f, batch_number, prompt, ai_response) ==
    IF f = "human"
    THEN [raised |-> FALSE, human |-> hl, json |-> jl]
    ELSE IF ai_response.kind = "none"
         THEN [raised |-> TRUE,
               human |-> Append(hl, LogEntry(ts, batch_number, prompt, ai_response, FALSE)),
               json |-> jl]
    ELSE IF f = "json"
         THEN [raised |-> TRUE,
               human |-> Append(hl, LogEntry(ts, batch_number, prompt, ai_response, TRUE)),
               json |-> jl]
    ELSE [raised |-> FALSE,
          human |-> Append(hl, LogEntry(ts, batch_number, prompt, ai_response, TRUE)),
          json |-> Append(jl, LogEntry(ts, batch_number, prompt, ai_response, TRUE))]

\* the outcome of one call: whether it raised, and the two files afterwards
LogValidationBatch(hl, jl, ts, f, batch_number, prompt, ai_response) ==
    IF f = "human"
    THEN [raised |-> TRUE, human |-> hl, json |-> jl]
    ELSE IF ai_response.kind = "none"
         \* f.write(ai_response + "\n") raises TypeError after the prompt was written
         THEN [raised |-> TRUE,
               human |-> Append(hl, LogEntry(ts, batch_number, prompt, ai_response, FALSE)),
               json |-> jl]
    ELSE IF f = "json"
         THEN [raised |-> TRUE,
               human |-> Append(hl, LogEntry(ts, batch_number, prompt, ai_response, TRUE)),
               json |-> jl]
    ELSE [raised |-> FALSE,
          human |-> Append(hl, LogEntry(ts, batch_number, prompt, ai_response, TRUE)),
          json |-> Append(jl, LogEntry(ts, batch_number, prompt, ai_response, TRUE))]

----------------------------------------------------------------------------
(* AIValidator.validate_tracks_for_party / _validate_batch *)

\* no reply yet
NoOutcome == [kind |-> "pending", content |-> <<>>]

\* the locals of the latest _validate_batch call: its batch, its prompt, what
\* the oracle did and where the log calls failed
NoPending ==
    [batch_number |-> 0, lo |-> 0, hi |-> 0, prompt |-> ErrorPrompt,
     outcome |-> NoOutcome, f1 |-> "ok", f2 |-> "ok"]

\* _create_validation_prompt: the batch's tracks, numbered from 1
CreateValidationPrompt(batch) ==
    [kind |-> "prompt", ids |-> [k \in 1..Len(batch) |-> batch[k].id]]

\* tracks with the slice lo..hi (1-based, inclusive) replaced: the dicts of the
\* batch are the dicts of the list
WithBatch(ts, lo, batch) ==
    [k \in 1..Len(ts) |-> IF k >= lo /\ k < lo + Len(batch) THEN batch[k - lo + 1] ELSE ts[k]]

\* variant: the client check is missing and the loop always runs
ValidateStartNoShortCircuit ==
    /\ vpc = "idle"
    /\ tracks' = tracks
    /\ validated_tracks' = <<>>
    /\ vpc' = IF Len(tracks) = 0 THEN "returned" ELSE "loop"
    /\ i' = 0
    /\ UNCHANGED <<client, batch_size, pending, oracle_calls, human_log, json_log, now, faults>>
    /\ UNCHANGED <<dvars, cvars, svars, gpc>>
    /\ UNCHANGED xvars

\* the call with no client: every track gets the default triple, no loop
ValidateStart ==
    /\ vpc = "idle"
    /\ IF ~client
       THEN /\ tracks' = UpdateAll(tracks, "AI validation unavailable")
            /\ validated_tracks' = tracks'
            /\ vpc' = "returned"
       ELSE /\ tracks' = tracks
            /\ validated_tracks' = <<>>
            /\ vpc' = IF Len(tracks) = 0 THEN "returned" ELSE "loop"
    /\ i' = 0
    /\ UNCHANGED <<client, batch_size, pending, oracle_calls, human_log, json_log, now, faults>>
    /\ UNCHANGED <<dvars, cvars, svars, gpc>>
    /\ UNCHANGED xvars

\* variant: the slice is tracks[i:], not tracks[i:i + batch_size]
BatchCallWholeRest ==
    /\ vpc = "loop"
    /\ i < Len(tracks)
    /\ LET batch == Slice(tracks, i, Len(tracks))
       IN  pending' = [batch_number |-> (i \div batch_size) + 1,
                       lo |-> i + 1, hi |-> i + Len(batch),
                       prompt |-> CreateValidationPrompt(batch),
                       outcome |-> NoOutcome, f1 |-> "ok", f2 |-> "ok"]
    /\ oracle_calls' = oracle_calls + 1
    /\ vpc' = "calling"
    /\ UNCHANGED <<client, tracks, batch_size, i, validated_tracks, human_log, json_log, now, faults>>
    /\ UNCHANGED <<dvars, cvars, svars, gpc>>
    /\ UNCHANGED xvars

\* one iteration of the for loop up to the blocking chat.completions.create
BatchCall ==
    /\ vpc = "loop"
    /\ i < Len(tracks)
    /\ LET batch == Slice(tracks, i, i + batch_size)
       IN  pending' = [batch_number |-> (i \div batch_size) + 1,
                       lo |-> i + 1, hi |-> i + Len(batch),
                       prompt |-> CreateValidationPrompt(batch),
                       outcome |-> NoOutcome, f1 |-> "ok", f2 |-> "ok"]
    /\ oracle_calls' = oracle_calls + 1
    /\ vpc' = "calling"
    /\ UNCHANGED <<client, tracks, batch_size, i, validated_tracks, human_log, json_log, now, faults>>
    /\ UNCHANGED <<dvars, cvars, svars, gpc>>
    /\ UNCHANGED xvars

\* variant: the except branch re-raises after the fallback and the log entry
ExceptBranchReraise(batch, reason, err, hl, jl, f2) ==
    LET error_results == UpdateAll(batch, reason)
        logged == LogValidationBatch(hl, jl, now, f2, pending.batch_number, ErrorPrompt, err)
    IN  /\ tracks' = WithBatch(tracks, pending.lo, error_results)
        /\ human_log' = logged.human
        /\ json_log' = logged.json
        /\ vpc' = "raised"
        /\ UNCHANGED <<validated_tracks, i>>

\* the except branch of _validate_batch, followed by the rest of the loop body
ExceptBranch(batch, reason, err, hl, jl, f2) ==
    LET error_results == UpdateAll(batch, reason)
        logged == LogValidationBatch(hl, jl, now, f2, pending.batch_number, ErrorPrompt, err)
    IN  /\ tracks' = WithBatch(tracks, pending.lo, error_results)
        /\ human_log' = logged.human
        /\ json_log' = logged.json
        /\ IF logged.raised
           THEN /\ vpc' = "raised"
                /\ UNCHANGED <<validated_tracks, i>>
           ELSE /\ validated_tracks' = validated_tracks \o error_results
                /\ i' = i + batch_size
                /\ vpc' = IF i' < Len(tracks) THEN "loop" ELSE "returned"

\* the oracle call returns or raises; the rest of _validate_batch and of the
\* loop body runs
BatchComplete(o, f1, f2) ==
    /\ vpc = "calling"
    /\ faults + FaultCost(f1) + FaultCost(f2) <= MaxFaults
    /\ LET batch == SubSeq(tracks, pending.lo, pending.hi)
       IN  IF o.kind = "raise"
           THEN /\ f1 = "ok"
                /\ ExceptBranch(batch, "API Error: oracle call failed",
                                [kind |-> "error", content |-> <<>>],
                                human_log, json_log, f2)
           ELSE LET validation_results == ParseAiResponse(o, batch)
                    logged == LogValidationBatch(human_log, json_log, now, f1,
                                                 pending.batch_number, pending.prompt, o)
                IN  /\ (o.kind = "none" => f1 # "json")
                    /\ IF logged.raised
                       THEN ExceptBranch(validation_results, "API Error: log write failed",
                                         [kind |-> "error", content |-> <<>>],
                                         logged.human, logged.json, f2)
                       ELSE /\ f2 = "ok"
                            /\ tracks' = WithBatch(tracks, pending.lo, validation_results)
                            /\ human_log' = logged.human
                            /\ json_log' = logged.json
                            /\ validated_tracks' = validated_tracks \o validation_results
                            /\ i' = i + batch_size
                            /\ vpc' = IF i' < Len(tracks) THEN "loop" ELSE "returned"
    /\ faults' = faults + FaultCost(f1) + FaultCost(f2)
    /\ pending' = [pending EXCEPT !.outcome = o, !.f1 = f1, !.f2 = f2]
    /\ UNCHANGED <<client, batch_size, oracle_calls, now>>
    /\ UNCHANGED <<dvars, cvars, svars, gpc>>
    /\ UNCHANGED xvars

\* a second passes while the oracle call is outstanding
Tick ==
    /\ vpc = "calling"
    /\ now < MaxClock
    /\ now' = now + 1
    /\ UNCHANGED <<client, tracks, batch_size, i, validated_tracks, vpc, pending,
                   oracle_calls, human_log, json_log, faults>>
    /\ UNCHANGED <<dvars, cvars, svars, gpc>>
    /\ UNCHANGED xvars

BatchSizes == {MaxBatchSize - 1, MaxBatchSize}

\* the components a specification does not exercise
DedupOff == all_tracks = <<>> /\ n_tracks = 0 /\ unique_tracks = <<>> /\ dpc = "off"

ClusterOff ==
    df = <<>> /\ n_clusters = 0 /\ df_clustered = <<>> /\ cpc = "off" /\ cluster_error = "none" /\ cluster_analysis = <<>>

SelectOff == min_score = 0 /\ party_tracks = <<>> /\ spc = "off"

ValidatorOff ==
    /\ client = FALSE /\ tracks = <<>> /\ batch_size = 0 /\ i = 0
    /\ validated_tracks = <<>> /\ vpc = "off" /\ pending = NoPending
    /\ oracle_calls = 0 /\ human_log = <<>> /\ json_log = <<>> /\ now = 0 /\ faults = 0

EnrichOff ==
    /\ network = FALSE /\ lf_tracks = <<>> /\ enriched_tracks = <<>>
    /\ lookups = <<>> /\ epc = "off"

SavedOff ==
    /\ sv_limit = 0 /\ sv_tracks = <<>> /\ offset = 0 /\ page_requests = <<>> /\ ppc = "off"

PlaylistOff ==
    /\ pl_tracks = <<>> /\ track_ids = <<>> /\ playlist_created = FALSE
    /\ li = 0 /\ added_count = 0 /\ attempts = <<>> /\ lpc = "off"

ExtrasOff == EnrichOff /\ SavedOff /\ PlaylistOff

ValidatorInit ==
    /\ client \in BOOLEAN
    /\ \E n \in 0..MaxTracks : tracks = FreshTracks(n)
    /\ batch_size \in BatchSizes
    /\ i = 0
    /\ validated_tracks = <<>>
    /\ vpc = "idle"
    /\ pending = NoPending
    /\ oracle_calls = 0
    /\ human_log = <<>>
    /\ json_log = <<>>
    /\ now = 0
    /\ faults = 0
    /\ DedupOff /\ ClusterOff /\ SelectOff
    /\ gpc = "off"
    /\ ExtrasOff

ValidatorNext ==
    \/ ValidateStart
    \/ BatchCall
    \/ \E o \in OracleOutcomes, f1 \in FaultChoices, f2 \in FaultChoices : BatchComplete(o, f1, f2)
    \/ Tick

SpecValidate == ValidatorInit /\ [][ValidatorNext]_vars

----------------------------------------------------------------------------
(* AIValidator.filter_party_tracks *)

\* track.get('ai_party_score', 0)
ScoreOrZero(t) == IF t.ai_party_score.kind = "absent" THEN Num(0) ELSE t.ai_party_score

\* variant: the comparison is > min_score
RECURSIVE KeepStrict(_, _)
KeepStrict(ts, m) ==
    IF ts = <<>> THEN <<>>
    ELSE IF ScoreOrZero(Head(ts)).val > m
         THEN <<Head(ts)>> \o KeepStrict(Tail(ts), m)
         ELSE KeepStrict(Tail(ts), m)

\* the list comprehension: the tracks kept, in input order
RECURSIVE Keep(_, _)
Keep(ts, m) ==
    IF ts = <<>> THEN <<>>
    ELSE IF ScoreOrZero(Head(ts)).val >= m
         THEN <<Head(ts)>> \o Keep(Tail(ts), m)
         ELSE Keep(Tail(ts), m)

\* variant: t goes in front of the elements with an equal score
RECURSIVE InsertDescUnstable(_, _)
InsertDescUnstable(sorted, t) ==
    IF sorted = <<>> THEN <<t>>
    ELSE IF ScoreOrZero(Head(sorted)).val > ScoreOrZero(t).val
         THEN <<Head(sorted)>> \o InsertDescUnstable(Tail(sorted), t)
         ELSE <<t>> \o sorted

\* insert t behind every element whose score is greater or equal: the order
\* list.sort(key=score, reverse=True) gives, which keeps equal keys in their
\* original order
RECURSIVE InsertDesc(_, _)
InsertDesc(sorted, t) ==
    IF sorted = <<>> THEN <<t>>
    ELSE IF ScoreOrZero(Head(sorted)).val >= ScoreOrZero(t).val
         THEN <<Head(sorted)>> \o InsertDesc(Tail(sorted), t)
         ELSE <<t>> \o sorted

RECURSIVE SortDesc(_)
SortDesc(ts) ==
    IF ts = <<>> THEN <<>>
    ELSE InsertDesc(SortDesc(SubSeq(ts, 1, Len(ts) - 1)), ts[Len(ts)])

\* comparing a str score with the number min_score raises TypeError
FilterRaises(ts) == \E k \in 1..Len(ts) : ts[k].ai_party_score.kind \notin {"num", "absent"}

FilterPartyTracks(ts, m) == SortDesc(Keep(ts, m))

Select ==
    /\ spc = "idle"
    /\ IF FilterRaises(validated_tracks)
       THEN spc' = "raised" /\ party_tracks' = party_tracks
       ELSE spc' = "returned" /\ party_tracks' = FilterPartyTracks(validated_tracks, min_score)
    /\ UNCHANGED <<min_score, vvars, dvars, cvars, gpc>>
    /\ UNCHANGED xvars

JudgedScores == {Num(3), Num(7), Num(9), AbsentScore, StrScore}

Recommendations == {"yes", "no", "maybe"}

JudgedTrack(k, sc, rc) ==
    [id |-> TrackIds[k], ai_party_score |-> sc,
     ai_reasoning |-> IF sc.kind = "absent" THEN Absent ELSE "reason",
     ai_recommendation |-> IF sc.kind = "absent" THEN Absent ELSE rc]

MinScores == {6, 7, 8}

SelectInit ==
    /\ \E n \in 0..MaxTracks :
         \E sc \in [1..n -> JudgedScores], rc \in [1..n -> Recommendations] :
            /\ \A k \in 1..n : sc[k].kind = "absent" => rc[k] = "maybe"
            /\ validated_tracks = [k \in 1..n |-> JudgedTrack(k, sc[k], rc[k])]
    /\ min_score \in MinScores
    /\ party_tracks = <<>>
    /\ spc = "idle"
    /\ client = FALSE /\ tracks = <<>> /\ batch_size = 0 /\ i = 0
    /\ vpc = "off" /\ pending = NoPending
    /\ oracle_calls = 0 /\ human_log = <<>> /\ json_log = <<>> /\ now = 0 /\ faults = 0
    /\ DedupOff /\ ClusterOff
    /\ gpc = "off"
    /\ ExtrasOff

SelectNext == Select

SpecSelect == SelectInit /\ [][SelectNext]_vars

----------------------------------------------------------------------------
(* Deduplication in generate / analyze *)

\* bool(track.get('id')): a missing, None or empty id is falsy
Truthy(id) == id \notin {Absent, NoneVal, ""}

\* position of key id in the key list, or 0
KeyIndex(keys, id) ==
    IF \E k \in 1..Len(keys) : keys[k].id = id
    THEN CHOOSE k \in 1..Len(keys) : keys[k].id = id
    ELSE 0

\* variant: the comprehension without its "if track.get('id')" filter
RECURSIVE DictByIdNoFilter(_)
DictByIdNoFilter(ts) ==
    IF ts = <<>> THEN <<>>
    ELSE LET d == DictByIdNoFilter(SubSeq(ts, 1, Len(ts) - 1))
             t == ts[Len(ts)]
             k == KeyIndex(d, t.id)
         IN  IF k = 0 THEN Append(d, t)
             ELSE [d EXCEPT ![k] = t]

\* {track['id']: track for track in all_tracks if track.get('id')}: a key
\* keeps the position of its first insertion and the value of its last
RECURSIVE DictById(_)
DictById(ts) ==
    IF ts = <<>> THEN <<>>
    ELSE LET d == DictById(SubSeq(ts, 1, Len(ts) - 1))
             t == ts[Len(ts)]
             k == KeyIndex(d, t.id)
         IN  IF ~Truthy(t.id) THEN d
             ELSE IF k = 0 THEN Append(d, t)
             ELSE [d EXCEPT ![k] = t]

\* list(...values())[:n] for n >= 0
Dedup(ts, n) == Slice(DictById(ts), 0, n)

Deduplicate ==
    /\ dpc = "idle"
    /\ unique_tracks' = Dedup(all_tracks, n_tracks)
    /\ dpc' = "done"
    /\ UNCHANGED <<all_tracks, n_tracks, vvars, cvars, svars, gpc>>
    /\ UNCHANGED xvars

FetchedIds == {"a", "b", "", NoneVal}

\* a fetched track: its id and the rest of its fields, which differ from one
\* fetched instance to the next (pos is the place in the merged list)
Fetched(id, pos) ==
    [id |-> id, pos |-> pos, name |-> <<"song">>, popularity |-> Num(80),
     duration_ms |-> Num(200), release_date |-> <<"1", "9", "9", "9", "-", "0", "5">>]

DedupInit ==
    /\ \E n \in 0..(2 * MaxFetched) :
         \E ids \in [1..n -> FetchedIds] : all_tracks = [k \in 1..n |-> Fetched(ids[k], k)]
    /\ n_tracks \in 0..MaxRequested
    /\ unique_tracks = <<>>
    /\ dpc = "idle"
    /\ ValidatorOff /\ ClusterOff /\ SelectOff
    /\ gpc = "off"
    /\ ExtrasOff

DedupNext == Deduplicate

SpecDedup == DedupInit /\ [][DedupNext]_vars

----------------------------------------------------------------------------
(* MusicAnalyzer.prepare_data *)

Digits == <<"0", "1", "2", "3", "4", "5", "6", "7", "8", "9">>

IsDigit(c) == \E d \in 1..10 : Digits[d] = c

DigitValue(c) == (CHOOSE d \in 1..10 : Digits[d] = c) - 1

RECURSIVE DecimalValue(_)
DecimalValue(cs) ==
    IF cs = <<>> THEN 0
    ELSE 10 * DecimalValue(SubSeq(cs, 1, Len(cs) - 1)) + DigitValue(cs[Len(cs)])

\* str.strip() of the blanks around a text
Strip(cs) ==
    LET inked == {k \in 1..Len(cs) : cs[k] # " "}
    IN  IF inked = {} THEN <<>>
        ELSE SubSeq(cs, CHOOSE a \in inked : \A b \in inked : a <= b,
                        CHOOSE a \in inked : \A b \in inked : a >= b)

\* int(text): blanks around the literal are dropped, one sign may lead, the
\* digits may be grouped by single underscores; ok is FALSE for ValueError
IntOf(cs) ==
    LET literal == Strip(cs)
        signed == literal # <<>> /\ literal[1] \in {"+", "-"}
        body == IF signed THEN Tail(literal) ELSE literal
        valid == /\ body # <<>>
                 /\ IsDigit(body[1]) /\ IsDigit(body[Len(body)])
                 /\ \A k \in 1..Len(body) :
                       \/ IsDigit(body[k])
                       \/ body[k] = "_" /\ IsDigit(body[k - 1]) /\ IsDigit(body[k + 1])
        magnitude == DecimalValue(SelectSeq(body, IsDigit))
    IN  IF valid
        THEN [ok |-> TRUE, val |-> IF signed /\ literal[1] = "-" THEN 0 - magnitude ELSE magnitude]
        ELSE [ok |-> FALSE, val |-> 0]

\* variant: the body of the try statement without its except clause
ReleaseYearNoExcept(release_date) ==
    IF release_date = <<Absent>> THEN [raised |-> FALSE, year |-> 2020]
    ELSE IF release_date = <<NoneVal>> THEN [raised |-> TRUE, year |-> 0]
    ELSE LET parsed == IntOf(Slice(release_date, 0, 4))
         IN  [raised |-> ~parsed.ok, year |-> parsed.val]

\* the try statement that sets release_year: 2020 without album or
\* release_date key, int(release_date[:4]) otherwise, and 2020 again when that
\* raises (None cannot be sliced, int() rejects the text); release_date is
\* <<Absent>> for a missing key and <<NoneVal>> for None
ReleaseYear(release_date) ==
    IF release_date = <<Absent>> THEN [raised |-> FALSE, year |-> 2020]
    ELSE IF release_date = <<NoneVal>> THEN [raised |-> FALSE, year |-> 2020]
    ELSE LET parsed == IntOf(Slice(release_date, 0, 4))
         IN  [raised |-> FALSE, year |-> IF parsed.ok THEN parsed.val ELSE 2020]

high_energy_keywords ==
    {"dance", "party", "electric", "beat", "club", "remix", "uptempo", "energy", "pump", "groove"}

low_energy_keywords ==
    {"ballad", "acoustic", "slow", "quiet", "piano", "soft", "gentle", "lullaby", "ambient"}

\* the keywords that occur inside a lower-cased word of a title
KeywordsIn(word) ==
    IF word = "beatles" THEN {"beat"}
    ELSE IF word = "software" THEN {"soft"}
    ELSE IF word \in high_energy_keywords \cup low_energy_keywords THEN {word}
    ELSE {}

\* str.lower() of a word of a title
Lower(word) == IF word = "Dance" THEN "dance" ELSE word

KeywordsOf(name) == UNION {KeywordsIn(Lower(name[k])) : k \in 1..Len(name)}

\* variant: the result is not clamped
EstimateEnergyFromNameNoClamp(name) ==
    5 + Cardinality(KeywordsOf(name) \cap high_energy_keywords)
      - Cardinality(KeywordsOf(name) \cap low_energy_keywords)

\* _estimate_energy_from_name, in tenths
EstimateEnergyFromName(name) ==
    LET energy_score == 5 + Cardinality(KeywordsOf(name) \cap high_energy_keywords)
                          - Cardinality(KeywordsOf(name) \cap low_energy_keywords)
    IN  IF energy_score < 0 THEN 0 ELSE IF energy_score > 10 THEN 10 ELSE energy_score

\* track.get('name', '')
NameOrEmpty(t) == IF t.name = <<Absent>> THEN <<>> ELSE t.name

PreparedRow(t) ==
    [id |-> t.id, pos |-> t.pos, name |-> t.name, popularity |-> t.popularity,
     duration_ms |-> t.duration_ms, release_date |-> t.release_date,
     release_year |-> Num(ReleaseYear(t.release_date).year),
     artist_popularity |-> IF t.popularity.kind = "absent" THEN Num(50) ELSE t.popularity,
     name_energy |-> Num(EstimateEnergyFromName(NameOrEmpty(t)))]

PrepareData(ts) == [k \in 1..Len(ts) |-> PreparedRow(ts[k])]

\* an exception leaves the loop of prepare_data: from the release-year
\* statement, or from .lower() on a name that is None
PrepareRaises(ts) ==
    \E k \in 1..Len(ts) : ReleaseYear(ts[k].release_date).raised \/ ts[k].name = <<NoneVal>>

----------------------------------------------------------------------------
(* MusicAnalyzer.cluster_tracks *)

feature_columns == {"popularity", "duration_ms", "release_year", "artist_popularity"}

Cell(row, col) ==
    CASE col = "popularity" -> row.popularity
      [] col = "duration_ms" -> row.duration_ms
      [] col = "release_year" -> row.release_year
      [] col = "artist_popularity" -> row.artist_popularity
      [] col = "name_energy" -> row.name_energy

\* a DataFrame built from dicts has a column for every key some dict has
InColumns(rows, col) == \E k \in 1..Len(rows) : Cell(rows[k], col).kind # "absent"

AvailableFeatures(rows) ==
    {col \in feature_columns : InColumns(rows, col)} \cup {"name_energy"}

\* a missing key and None are both NA
IsNA(v) == v.kind \in {"absent", "none"}

\* variant: dropna() is not applied
FeatureDataIndexNoDropna(rows) == 1..Len(rows)

\* the index of feature_data after dropna()
FeatureDataIndex(rows) ==
    {k \in 1..Len(rows) : \A col \in AvailableFeatures(rows) : ~IsNA(Cell(rows[k], col))}

\* df['name'].apply(...) fails without a name column or on a row without name
NameEnergyRaises(rows) == rows = <<>> \/ \E k \in 1..Len(rows) : rows[k].name = <<Absent>>

\* KMeans rejects n_clusters < 1 and n_clusters > n_samples
KMeansRaises(n_samples, k) == k < 1 \/ k > n_samples

ClusterRaises(rows, k) ==
    \/ NameEnergyRaises(rows)
    \/ FeatureDataIndex(rows) = {}
    \/ KMeansRaises(Cardinality(FeatureDataIndex(rows)), k)

\* the exceptions of cluster_tracks, by the statement that raises them
NameKeyError == "KeyError: 'name'"
NameAttributeError == "AttributeError: 'float' object has no attribute 'lower'"
NoValidMetadataError == "ValueError: No valid metadata found for clustering"
InvalidNClustersError == "ValueError: n_clusters must be an int in the range [1, inf)"
TooFewSamplesError == "ValueError: n_samples should be >= n_clusters"

\* variant: KMeans is asked before the rows are counted
ClusterErrorCountFirst(rows, k) ==
    IF rows = <<>> \/ \A j \in 1..Len(rows) : rows[j].name = <<Absent>> THEN NameKeyError
    ELSE IF \E j \in 1..Len(rows) : rows[j].name = <<Absent>> THEN NameAttributeError
    ELSE IF k < 1 THEN InvalidNClustersError
    ELSE IF k > Cardinality(FeatureDataIndex(rows)) THEN TooFewSamplesError
    ELSE IF FeatureDataIndex(rows) = {} THEN NoValidMetadataError
    ELSE "none"

\* the exception cluster_tracks ends with, in the order of its statements:
\* df['name'] without a name column, .lower() on the NaN of a row without
\* name, the len(feature_data) == 0 test, then KMeans.fit_predict
ClusterError(rows, k) ==
    IF rows = <<>> \/ \A j \in 1..Len(rows) : rows[j].name = <<Absent>> THEN NameKeyError
    ELSE IF \E j \in 1..Len(rows) : rows[j].name = <<Absent>> THEN NameAttributeError
    ELSE IF FeatureDataIndex(rows) = {} THEN NoValidMetadataError
    ELSE IF k < 1 THEN InvalidNClustersError
    ELSE IF k > Cardinality(FeatureDataIndex(rows)) THEN TooFewSamplesError
    ELSE "none"

\* df.loc[feature_data.index] with the cluster column added
RECURSIVE Labeled(_, _, _, _)
Labeled(rows, index, labels, k) ==
    IF k > Len(rows) THEN <<>>
    ELSE IF k \in index
         THEN <<[row |-> rows[k], cluster |-> labels[k]]>> \o Labeled(rows, index, labels, k + 1)
         ELSE Labeled(rows, index, labels, k + 1)

\* cluster_data = df[df['cluster'] == cluster_id]
RECURSIVE ClusterData(_, _)
ClusterData(labeled, cluster_id) ==
    IF labeled = <<>> THEN <<>>
    ELSE IF Head(labeled).cluster = cluster_id
         THEN <<Head(labeled).row>> \o ClusterData(Tail(labeled), cluster_id)
         ELSE ClusterData(Tail(labeled), cluster_id)

\* sorted(df['cluster'].unique())
RECURSIVE SortedIds(_)
SortedIds(ids) ==
    IF ids = {} THEN <<>>
    ELSE LET least == CHOOSE c \in ids : \A other \in ids : c <= other
         IN  <<least>> \o SortedIds(ids \ {least})

\* cluster_data[col].sum()
RECURSIVE ColumnSum(_, _)
ColumnSum(rows, col) ==
    IF rows = <<>> THEN 0 ELSE Cell(Head(rows), col).val + ColumnSum(Tail(rows), col)

SampleSize == 3

\* variant: every track of the cluster is a sample track
HeadAll(rows) == [k \in 1..Len(rows) |-> rows[k].id]

\* cluster_data[['name', 'artist']].head(3), a track standing for its pair
HeadRows(rows) ==
    [k \in 1..(IF Len(rows) < SampleSize THEN Len(rows) ELSE SampleSize) |-> rows[k].id]

\* the popularity rule: mean > 70, mean < 30, and 50 without the column
PopularityTier(rows, columns) ==
    LET n == Len(rows)
        total == IF "popularity" \in columns THEN ColumnSum(rows, "popularity") ELSE 50 * n
    IN  IF total > 70 * n THEN <<"Popular hits">>
        ELSE IF total < 30 * n THEN <<"Deep cuts">>
        ELSE <<>>

\* variant: years from 2020 on get no era label
EraBucketNoRecent(rows, columns) ==
    LET n == Len(rows)
        total == ColumnSum(rows, "release_year")
    IN  IF "release_year" \notin columns THEN <<>>
        ELSE IF total < 1980 * n THEN <<"Classic oldies">>
        ELSE IF total < 1990 * n THEN <<"80s">>
        ELSE IF total < 2000 * n THEN <<"90s">>
        ELSE IF total < 2010 * n THEN <<"2000s">>
        ELSE IF total < 2020 * n THEN <<"2010s">>
        ELSE <<>>

\* the era rule: one label for every mean release year
EraBucket(rows, columns) ==
    LET n == Len(rows)
        total == ColumnSum(rows, "release_year")
    IN  IF "release_year" \notin columns THEN <<>>
        ELSE IF total < 1980 * n THEN <<"Classic oldies">>
        ELSE IF total < 1990 * n THEN <<"80s">>
        ELSE IF total < 2000 * n THEN <<"90s">>
        ELSE IF total < 2010 * n THEN <<"2000s">>
        ELSE IF total < 2020 * n THEN <<"2010s">>
        ELSE <<"Recent releases">>

\* the energy rule, name_energy in tenths: mean > 0.6, mean < 0.4
EnergyTier(rows, columns) ==
    LET n == Len(rows)
        total == ColumnSum(rows, "name_energy")
    IN  IF "name_energy" \notin columns THEN <<>>
        ELSE IF total > 6 * n THEN <<"High-energy">>
        ELSE IF total < 4 * n THEN <<"Mellow">>
        ELSE <<>>

\* the duration rule: mean / 1000 > 300, mean / 1000 < 180
DurationTier(rows, columns) ==
    LET n == Len(rows)
        total == ColumnSum(rows, "duration_ms")
    IN  IF "duration_ms" \notin columns THEN <<>>
        ELSE IF total > 300 * 1000 * n THEN <<"Extended tracks">>
        ELSE IF total < 180 * 1000 * n THEN <<"Radio-friendly">>
        ELSE <<>>

\* _describe_music_style_from_metadata: the labels " ".join puts together,
\* or "Mixed style" for an empty list
DescribeMusicStyleFromMetadata(rows, columns) ==
    LET style_elements == PopularityTier(rows, columns) \o EraBucket(rows, columns)
                            \o EnergyTier(rows, columns) \o DurationTier(rows, columns)
    IN  IF style_elements # <<>> THEN style_elements ELSE <<"Mixed style">>

\* the columns of df_clustered that the style rules look for
Columns(rows) == {col \in feature_columns \cup {"name_energy"} : InColumns(rows, col)}

\* _analyze_clusters: the dict keeps the insertion order of the sorted ids
AnalyzeClusters(labeled) ==
    LET ids == SortedIds({labeled[k].cluster : k \in 1..Len(labeled)})
        columns == Columns([k \in 1..Len(labeled) |-> labeled[k].row])
    IN  [j \in 1..Len(ids) |->
            LET cluster_data == ClusterData(labeled, ids[j])
            IN  [cluster_id |-> ids[j],
                 size |-> Len(cluster_data),
                 style_description |-> DescribeMusicStyleFromMetadata(cluster_data, columns),
                 sample_tracks |-> HeadRows(cluster_data)]]

ClusterTracks ==
    /\ cpc = "idle"
    /\ IF ClusterRaises(df, n_clusters)
       THEN /\ cpc' = "raised"
            /\ cluster_error' = ClusterError(df, n_clusters)
            /\ df_clustered' = df_clustered
            /\ cluster_analysis' = cluster_analysis
       ELSE /\ \E labels \in [FeatureDataIndex(df) -> 0..(n_clusters - 1)] :
                 LET labeled == Labeled(df, FeatureDataIndex(df), labels, 1)
                 IN  /\ df_clustered' = labeled
                     /\ cluster_analysis' = AnalyzeClusters(labeled)
            /\ cpc' = "returned"
            /\ cluster_error' = cluster_error
    /\ UNCHANGED <<df, n_clusters, vvars, dvars, svars, gpc>>
    /\ UNCHANGED xvars

FeatureValues == {Num(80), NoneScore, AbsentScore}

RawTrack(k, nm, pop, dur) ==
    [id |-> TrackIds[k], pos |-> k, name |-> nm, popularity |-> pop,
     duration_ms |-> dur, release_date |-> <<"1", "9", "9", "9", "-", "0", "5">>]

Names == {<<"slow", "dance">>, <<Absent>>}

ClusterInit ==
    /\ \E n \in 0..MaxTracks :
         \E nm \in [1..n -> Names], pop \in [1..n -> FeatureValues], dur \in [1..n -> FeatureValues] :
            df = PrepareData([k \in 1..n |-> RawTrack(k, nm[k], pop[k], dur[k])])
    /\ n_clusters \in 0..MaxClusters
    /\ df_clustered = <<>>
    /\ cpc = "idle"
    /\ cluster_error = "none" /\ cluster_analysis = <<>>
    /\ ValidatorOff /\ DedupOff /\ SelectOff
    /\ gpc = "off"
    /\ ExtrasOff

ClusterNext == ClusterTracks

SpecCluster == ClusterInit /\ [][ClusterNext]_vars

\* cluster_tracks on longer inputs: saved tracks with a name, with or without
\* a popularity, in one or two clusters
SummaryInit ==
    /\ \E n \in 1..MaxSummaryRows :
         \E pop \in [1..n -> {Num(80), NoneScore}] :
            df = PrepareData([k \in 1..n |-> RawTrack(k, <<"slow", "dance">>, pop[k], Num(200))])
    /\ n_clusters \in 1..2
    /\ df_clustered = <<>>
    /\ cpc = "idle"
    /\ cluster_error = "none" /\ cluster_analysis = <<>>
    /\ ValidatorOff /\ DedupOff /\ SelectOff
    /\ gpc = "off"
    /\ ExtrasOff

SpecSummary == SummaryInit /\ [][ClusterTracks]_vars

\* popularity, duration_ms, release date and name of the tracks whose style
\* is described: values on both sides of every threshold, missing keys
StylePopularities == {Num(20), Num(70), Num(80), AbsentScore}
StyleDurations == {Num(170000), Num(300000), Num(310000), AbsentScore}
StyleDates == {<<"1", "9", "7", "9">>, <<"2", "0", "2", "1", "-", "0", "3">>}
StyleNames == {<<"dance", "party">>, <<"slow", "quiet">>}

StyleTrack(k, nm, pop, dur, date) ==
    [RawTrack(k, nm, pop, dur) EXCEPT !.release_date = date]

\* cluster_tracks with one cluster, so that the cluster is the eligible input
StyleInit ==
    /\ \E n \in 1..MaxStyleRows :
         \E nm \in [1..n -> StyleNames], pop \in [1..n -> StylePopularities],
            dur \in [1..n -> StyleDurations], date \in [1..n -> StyleDates] :
            df = PrepareData([k \in 1..n |-> StyleTrack(k, nm[k], pop[k], dur[k], date[k])])
    /\ n_clusters = 1
    /\ df_clustered = <<>>
    /\ cpc = "idle"
    /\ cluster_error = "none" /\ cluster_analysis = <<>>
    /\ ValidatorOff /\ DedupOff /\ SelectOff
    /\ gpc = "off"
    /\ ExtrasOff

SpecStyle == StyleInit /\ [][ClusterTracks]_vars

----------------------------------------------------------------------------
(* The generate command *)

DefaultBatchSize == 5

\* df_clustered.to_dict('records'): one dict per labeled row, no ai_* keys
ToDictRecords(labeled) ==
    [k \in 1..Len(labeled) |->
        [id |-> labeled[k].row.id, pos |-> labeled[k].row.pos, cluster |-> labeled[k].cluster,
         ai_party_score |-> AbsentScore, ai_reasoning |-> Absent, ai_recommendation |-> Absent]]

\* step 4, first half: analyzer.prepare_data(unique_tracks); an exception
\* ends the run in the except clause of generate
GenPrepare ==
    /\ gpc = "running" /\ dpc = "done" /\ cpc = "off"
    /\ IF PrepareRaises(unique_tracks)
       THEN gpc' = "aborted at preparation" /\ UNCHANGED <<df, cpc>>
       ELSE df' = PrepareData(unique_tracks) /\ cpc' = "idle" /\ gpc' = gpc
    /\ UNCHANGED <<n_clusters, df_clustered, cluster_error, cluster_analysis, vvars, dvars, svars>>
    /\ UNCHANGED xvars

\* album.release_date values: full and partial dates, texts int() accepts
\* with a blank, a sign or an underscore, texts it rejects, the empty text
ReleaseDates ==
    { <<"1", "9", "9", "9", "-", "0", "5">>, <<"2", "0", "2", "1">>, <<"1", "9", "9">>,
      <<"0", "0", "4", "2", "-", "0", "1">>, <<" ", "1", "9", "9", "9">>,
      <<"+", "1", "9", "9">>, <<"-", "1", "9", "9">>, <<"1", "_", "9", "9">>,
      <<"_", "1", "9", "9">>, <<"9", "9", "-", "0", "1">>, <<"1", "9", ".", "5">>,
      <<"u", "n", "k", "n", "o", "w", "n">>, <<>>, <<Absent>>, <<NoneVal>> }

PreparedNames == {<<"song">>, <<NoneVal>>}

\* the two keyword lists in the order of the source
HighList ==
    <<"dance", "party", "electric", "beat", "club", "remix", "uptempo", "energy", "pump", "groove">>

LowList ==
    <<"ballad", "acoustic", "slow", "quiet", "piano", "soft", "gentle", "lullaby", "ambient">>

\* how a title goes on after its keywords: a word without keyword, words that
\* hold a keyword inside, a capitalised keyword, a keyword twice
TitleEndings ==
    {<<>>, <<"love">>, <<"beatles">>, <<"software">>, <<"Dance">>, <<"dance", "dance">>}

\* titles with the first h high-energy and the first l low-energy keywords
Titles ==
    {SubSeq(HighList, 1, h) \o SubSeq(LowList, 1, l) \o e :
        h \in 0..Len(HighList), l \in 0..Len(LowList), e \in TitleEndings}

PrepareInit ==
    /\ \E n \in 0..MaxPrepared :
         \E rd \in [1..n -> ReleaseDates], nm \in [1..n -> PreparedNames] :
            unique_tracks =
              [k \in 1..n |-> [Fetched(TrackIds[k], k) EXCEPT !.release_date = rd[k], !.name = nm[k]]]
    /\ all_tracks = <<>> /\ n_tracks = 0 /\ dpc = "done"
    /\ ClusterOff /\ ValidatorOff /\ SelectOff
    /\ gpc = "running"
    /\ ExtrasOff

PrepareNext == GenPrepare

\* prepare_data on one track, for every title
EnergyInit ==
    /\ \E t \in Titles : unique_tracks = <<[Fetched(TrackIds[1], 1) EXCEPT !.name = t]>>
    /\ all_tracks = <<>> /\ n_tracks = 0 /\ dpc = "done"
    /\ ClusterOff /\ ValidatorOff /\ SelectOff
    /\ gpc = "running"
    /\ ExtrasOff

EnergyNext == GenPrepare

SpecEnergy == EnergyInit /\ [][EnergyNext]_vars

SpecPrepare == PrepareInit /\ [][PrepareNext]_vars

\* step 5: ai_validator.validate_tracks_for_party(tracks_list) is called
GenValidate ==
    /\ gpc = "running" /\ cpc = "returned" /\ vpc = "off"
    /\ tracks' = ToDictRecords(df_clustered)
    /\ batch_size' = DefaultBatchSize
    /\ vpc' = "idle"
    /\ UNCHANGED <<client, i, validated_tracks, pending, oracle_calls, human_log,
                   json_log, now, faults, dvars, cvars, svars, gpc>>
    /\ UNCHANGED xvars

\* sum(scores) in display_validation_summary raises TypeError on a str score
SummaryRaises(ts) == \E k \in 1..Len(ts) : ScoreOrZero(ts[k]).kind # "num"

\* display_validation_summary, then filter_party_tracks is called
GenSummary ==
    /\ gpc = "running" /\ vpc = "returned" /\ spc = "off"
    /\ IF SummaryRaises(validated_tracks)
       THEN gpc' = "aborted at validation summary" /\ spc' = spc
       ELSE gpc' = gpc /\ spc' = "idle"
    /\ UNCHANGED <<min_score, party_tracks, vvars, dvars, cvars>>
    /\ UNCHANGED xvars

\* steps 7 and 8: the exports, then the closing panel, which divides the
\* score total by len(party_tracks)
GenFinish ==
    /\ gpc = "running" /\ spc = "returned"
    /\ gpc' = IF Len(party_tracks) = 0 THEN "aborted at final summary" ELSE "completed"
    /\ UNCHANGED <<vvars, dvars, cvars, svars>>
    /\ UNCHANGED xvars

\* the except clause of generate: an exception of a step ends the run
GenAbort ==
    /\ gpc = "running"
    /\ \/ cpc = "raised" /\ gpc' = "aborted at clustering"
       \/ vpc = "raised" /\ gpc' = "aborted at validation"
       \/ spc = "raised" /\ gpc' = "aborted at selection"
    /\ UNCHANGED <<vvars, dvars, cvars, svars>>
    /\ UNCHANGED xvars

PipelineIds == {"a", "b"}

PipelineFeatures == {Num(80), NoneScore}

GenerateInit ==
    /\ \E n \in 0..MaxFetched :
         \E ids \in [1..n -> PipelineIds], pop \in [1..n -> PipelineFeatures] :
            all_tracks = [k \in 1..n |-> [Fetched(ids[k], k) EXCEPT !.popularity = pop[k]]]
    /\ n_tracks = MaxRequested
    /\ unique_tracks = <<>>
    /\ dpc = "idle"
    /\ df = <<>> /\ df_clustered = <<>> /\ cpc = "off" /\ cluster_error = "none" /\ cluster_analysis = <<>>
    /\ n_clusters \in 1..2
    /\ min_score \in MinScores
    /\ party_tracks = <<>> /\ spc = "off"
    /\ client \in BOOLEAN
    /\ tracks = <<>> /\ batch_size = 0 /\ i = 0
    /\ validated_tracks = <<>> /\ vpc = "off" /\ pending = NoPending
    /\ oracle_calls = 0 /\ human_log = <<>> /\ json_log = <<>> /\ now = 0 /\ faults = 0
    /\ gpc = "running"
    /\ ExtrasOff

GenerateNext ==
    \/ Deduplicate
    \/ GenPrepare
    \/ ClusterTracks
    \/ GenValidate
    \/ ValidateStart
    \/ BatchCall
    \/ \E o \in OracleOutcomes, f1 \in FaultChoices, f2 \in FaultChoices : BatchComplete(o, f1, f2)
    \/ Tick
    \/ GenSummary
    \/ Select
    \/ GenFinish
    \/ GenAbort

SpecGenerate == GenerateInit /\ [][GenerateNext]_vars

----------------------------------------------------------------------------
(* LastFMEnricher.enrich_tracks *)

\* a track without lastfm key
NoBlock ==
    [present |-> FALSE, info |-> Absent, tags |-> Absent, similar |-> Absent, artist |-> Absent]

\* the dict {}
EmptyBlock ==
    [present |-> TRUE, info |-> Absent, tags |-> Absent, similar |-> Absent, artist |-> Absent]

\* a call of the Last.fm client raises, returns nothing, or returns data
SubOutcomes == {"raise", "nothing", "data"}

\* network.get_track: an object, pylast.WSError, or another exception; then
\* the four groups of calls on the track object
Lookups ==
    {[get_track |-> "ok", info |-> a, tags |-> b, similar |-> c, artist |-> d] :
        a \in SubOutcomes, b \in SubOutcomes, c \in SubOutcomes, d \in SubOutcomes}
    \cup {[get_track |-> g, info |-> "nothing", tags |-> "nothing",
           similar |-> "nothing", artist |-> "nothing"] : g \in {"ws_error", "error"}}

\* the keys of one group after its try statement: data, nothing, or, where the
\* except clause sets empty lists, a placeholder
Field(outcome, on_raise) ==
    IF outcome = "data" THEN "data" ELSE IF outcome = "raise" THEN on_raise ELSE Absent

\* variant: only pylast.WSError is caught
GetLastfmMetadataOnlyWSError(l) ==
    IF l.get_track = "error" THEN [raised |-> TRUE, none |-> TRUE, metadata |-> EmptyBlock]
    ELSE IF l.get_track = "ws_error" THEN [raised |-> FALSE, none |-> TRUE, metadata |-> EmptyBlock]
    ELSE LET metadata == [present |-> TRUE,
                          info |-> Field(l.info, Absent),
                          tags |-> Field(l.tags, "placeholder"),
                          similar |-> Field(l.similar, "placeholder"),
                          artist |-> Field(l.artist, "placeholder")]
         IN  [raised |-> FALSE, none |-> metadata = EmptyBlock, metadata |-> metadata]

\* _get_lastfm_metadata: None after an exception of get_track and for an
\* empty metadata dict, the metadata dict otherwise
GetLastfmMetadata(l) ==
    IF l.get_track # "ok" THEN [raised |-> FALSE, none |-> TRUE, metadata |-> EmptyBlock]
    ELSE LET metadata == [present |-> TRUE,
                          info |-> Field(l.info, Absent),
                          tags |-> Field(l.tags, "placeholder"),
                          similar |-> Field(l.similar, "placeholder"),
                          artist |-> Field(l.artist, "placeholder")]
         IN  [raised |-> FALSE, none |-> metadata = EmptyBlock, metadata |-> metadata]

\* the call: without network the input list is returned as it is
EnrichStart ==
    /\ epc = "idle"
    /\ IF ~network
       THEN enriched_tracks' = lf_tracks /\ epc' = "returned"
       ELSE enriched_tracks' = <<>> /\ epc' = IF Len(lf_tracks) = 0 THEN "returned" ELSE "loop"
    /\ UNCHANGED <<network, lf_tracks, lookups>>
    /\ UNCHANGED <<vvars, dvars, cvars, svars, gpc, pvars, lvars>>

\* one iteration of the loop over tracks
EnrichTrack(l) ==
    /\ epc = "loop"
    /\ LET k == Len(enriched_tracks) + 1
           lastfm_data == GetLastfmMetadata(l)
           enriched_track ==
               [lf_tracks[k] EXCEPT !.lastfm = IF lastfm_data.none THEN EmptyBlock
                                               ELSE lastfm_data.metadata]
       IN  IF lastfm_data.raised
           THEN epc' = "raised" /\ UNCHANGED <<lf_tracks, enriched_tracks>>
           ELSE /\ lf_tracks' = lf_tracks
                /\ enriched_tracks' = Append(enriched_tracks, enriched_track)
                /\ epc' = IF k = Len(lf_tracks) THEN "returned" ELSE "loop"
    /\ lookups' = Append(lookups, l)
    /\ UNCHANGED network
    /\ UNCHANGED <<vvars, dvars, cvars, svars, gpc, pvars, lvars>>

\* a track as the Spotify client hands it over: no lastfm key
EnrichInput(k) == [id |-> TrackIds[k], lastfm |-> NoBlock]

EnrichInit ==
    /\ network \in BOOLEAN
    /\ \E n \in 0..MaxEnriched : lf_tracks = [k \in 1..n |-> EnrichInput(k)]
    /\ enriched_tracks = <<>>
    /\ lookups = <<>>
    /\ epc = "idle"
    /\ ValidatorOff /\ DedupOff /\ ClusterOff /\ SelectOff
    /\ gpc = "off"
    /\ SavedOff /\ PlaylistOff

EnrichNext ==
    \/ EnrichStart
    \/ \E l \in Lookups : EnrichTrack(l)

SpecEnrich == EnrichInit /\ [][EnrichNext]_vars

----------------------------------------------------------------------------
(* SpotifyClient.get_saved_tracks *)

PageSize == 50

\* variant: every page request asks for a full page
RequestSizeFixed(limit, have) == PageSize

\* batch_size = min(50, limit - len(tracks))
RequestSize(limit, have) == Min(PageSize, limit - have)

\* the track_info built from item k of the reply to page request r
Item(r, k) == [page |-> r, item |-> k]

\* the call up to the first test of the while condition
SavedStart ==
    /\ ppc = "idle"
    /\ sv_tracks' = <<>>
    /\ offset' = 0
    /\ ppc' = IF Len(sv_tracks') < sv_limit THEN "loop" ELSE "returned"
    /\ UNCHANGED <<sv_limit, page_requests>>
    /\ UNCHANGED <<vvars, dvars, cvars, svars, gpc, evars, lvars>>

\* one iteration of the while loop: the page request raises, or its reply
\* holds m items, as many as the service chooses to send
SavedPage(m, raises) ==
    /\ ppc = "loop"
    /\ LET page_limit == RequestSize(sv_limit, Len(sv_tracks))
           r == Len(page_requests) + 1
       IN  /\ page_requests' =
                 Append(page_requests,
                        [limit |-> page_limit, offset |-> offset, raised |-> raises,
                         items |-> IF raises THEN 0 ELSE m])
           /\ IF raises
              THEN ppc' = "raised" /\ UNCHANGED <<sv_tracks, offset>>
              ELSE IF m = 0
                   THEN ppc' = "returned" /\ UNCHANGED <<sv_tracks, offset>>
                   ELSE /\ sv_tracks' = sv_tracks \o [k \in 1..m |-> Item(r, k)]
                        /\ offset' = offset + page_limit
                        /\ ppc' = IF Len(sv_tracks') < sv_limit THEN "loop" ELSE "returned"
    /\ UNCHANGED sv_limit
    /\ UNCHANGED <<vvars, dvars, cvars, svars, gpc, evars, lvars>>

SavedInit ==
    /\ sv_limit \in 0..MaxLimit
    /\ sv_tracks = <<>> /\ offset = 0 /\ page_requests = <<>>
    /\ ppc = "idle"
    /\ ValidatorOff /\ DedupOff /\ ClusterOff /\ SelectOff
    /\ gpc = "off"
    /\ EnrichOff /\ PlaylistOff

\* a reply holds from no item to more items than were left to fetch
SavedNext ==
    \/ SavedStart
    \/ \E m \in 0..(sv_limit - Len(sv_tracks) + MaxPageExtra) : SavedPage(m, FALSE)
    \/ SavedPage(0, TRUE)

\* the loop goes on as long as the process runs
SpecSaved == SavedInit /\ [][SavedNext]_vars /\ WF_vars(SavedNext)

----------------------------------------------------------------------------
(* The create_playlist command *)

AddBatchSize == 100

\* the ids of the tracks whose id is truthy, in file order; 0 stands for a
\* missing, None or empty id
ExtractIds(ts) ==
    LET valid == SelectSeq(ts, LAMBDA t : t.id # 0)
    IN  [k \in 1..Len(valid) |-> valid[k].id]

\* from the id extraction to the creation of the playlist: click.Abort
\* without ids, the error exit when current_user or user_playlist_create
\* raises
PlCreate(ok) ==
    /\ lpc = "idle"
    /\ track_ids' = ExtractIds(pl_tracks)
    /\ IF track_ids' = <<>> \/ ~ok
       THEN lpc' = "aborted" /\ playlist_created' = FALSE
       ELSE lpc' = "adding" /\ playlist_created' = TRUE
    /\ li' = 0 /\ added_count' = 0
    /\ UNCHANGED <<pl_tracks, attempts>>
    /\ UNCHANGED <<vvars, dvars, cvars, svars, gpc, evars, pvars>>

\* variant: the first failing batch ends the loop
PlAddBatchStop(ok) ==
    /\ lpc = "adding"
    /\ LET hi == Min(li + AddBatchSize, Len(track_ids))
       IN  /\ attempts' = Append(attempts, [lo |-> li + 1, hi |-> hi, ok |-> ok])
           /\ added_count' = IF ok THEN added_count + (hi - li) ELSE added_count
    /\ li' = li + AddBatchSize
    /\ lpc' = IF li' < Len(track_ids) /\ ok THEN "adding" ELSE "done"
    /\ UNCHANGED <<pl_tracks, track_ids, playlist_created>>
    /\ UNCHANGED <<vvars, dvars, cvars, svars, gpc, evars, pvars>>

\* one iteration of the for loop: playlist_add_items returns or raises
PlAddBatch(ok) ==
    /\ lpc = "adding"
    /\ LET hi == Min(li + AddBatchSize, Len(track_ids))
       IN  /\ attempts' = Append(attempts, [lo |-> li + 1, hi |-> hi, ok |-> ok])
           /\ added_count' = IF ok THEN added_count + (hi - li) ELSE added_count
    /\ li' = li + AddBatchSize
    /\ lpc' = IF li' < Len(track_ids) THEN "adding" ELSE "done"
    /\ UNCHANGED <<pl_tracks, track_ids, playlist_created>>
    /\ UNCHANGED <<vvars, dvars, cvars, svars, gpc, evars, pvars>>

\* where the playlist file may hold a track without id
InvalidPlaces == {1, 100}

PlaylistInit ==
    /\ \E n \in 0..MaxPlaylistTracks, invalid \in SUBSET InvalidPlaces :
         pl_tracks = [k \in 1..n |-> [id |-> IF k \in invalid THEN 0 ELSE k]]
    /\ track_ids = <<>> /\ playlist_created = FALSE
    /\ li = 0 /\ added_count = 0 /\ attempts = <<>>
    /\ lpc = "idle"
    /\ ValidatorOff /\ DedupOff /\ ClusterOff /\ SelectOff
    /\ gpc = "off"
    /\ EnrichOff /\ SavedOff

PlaylistNext ==
    \/ \E ok \in BOOLEAN : PlCreate(ok)
    \/ \E ok \in BOOLEAN : PlAddBatch(ok)

SpecPlaylist == PlaylistInit /\ [][PlaylistNext]_vars

----------------------------------------------------------------------------
(* Properties of the Judgment Batcher *)

HasTriple(t) ==
    /\ t.ai_party_score.kind # "absent"
    /\ t.ai_reasoning # Absent
    /\ t.ai_recommendation # Absent

IsFallback(t) ==
    /\ t.ai_party_score = Num(5)
    /\ t.ai_recommendation = "maybe"
    /\ t.ai_reasoning # Absent

\* the latest _validate_batch call has finished
BatchFinished == vpc # "calling" /\ pending.outcome.kind # "pending"

BatchRange == pending.lo..pending.hi

HasSpan(text) == Find(text, "[") # -1 /\ RFind(text, "]") + 1 > Find(text, "[")

SpanOf(text) == Slice(text, Find(text, "["), RFind(text, "]") + 1)

\* the reply decodes to an array
Decodes(o) == o.kind = "text" /\ HasSpan(o.content) /\ JsonLoads(SpanOf(o.content)).ok

DecodedEntries(o) == JsonLoads(SpanOf(o.content)).vals

\* an entry as the prompt's schema describes it
MatchesSchema(e) ==
    /\ e.tok = "obj"
    /\ e.party_score.kind = "num" /\ e.party_score.val \in 1..10
    /\ e.reasoning # Absent
    /\ e.recommendation \in {"yes", "no", "maybe"}

\* C2: once validate_tracks_for_party has returned, every track passed in
\* has ai_party_score, ai_reasoning and ai_recommendation set, whatever the
\* oracle did (stated as claimed; the code leaves them unset after an empty or
\* short array)
C2_AllFieldsSet ==
    vpc = "returned" => \A k \in 1..Len(tracks) : HasTriple(tracks[k])

\* C3: after a reply that decodes to m objects for a batch of n > m tracks
\* (and whose log call succeeded), the first m tracks carry the values of
\* their entries and the other n - m carry the fallback triple (stated as
\* claimed; the code leaves the tail untouched)
C3_PartialTailFallback ==
    (/\ BatchFinished
     /\ Decodes(pending.outcome)
     /\ pending.f1 = "ok"
     /\ Len(DecodedEntries(pending.outcome)) < pending.hi - pending.lo + 1
     /\ \A e \in 1..Len(DecodedEntries(pending.outcome)) :
            DecodedEntries(pending.outcome)[e].tok = "obj")
    => \A k \in BatchRange :
          LET e == k - pending.lo + 1
              es == DecodedEntries(pending.outcome)
          IN  IF e <= Len(es)
              THEN /\ tracks[k].ai_party_score = EntryTriple(es[e]).ai_party_score
                   /\ tracks[k].ai_reasoning = EntryTriple(es[e]).ai_reasoning
                   /\ tracks[k].ai_recommendation = EntryTriple(es[e]).ai_recommendation
              ELSE IsFallback(tracks[k])

\* the failures C4 lists: the call raised, the reply has no bracketed span,
\* the span does not decode, or a decoded entry does not match the schema
FailedOutcome(o) ==
    \/ o.kind \in {"raise", "none"}
    \/ o.kind = "text" /\ ~HasSpan(o.content)
    \/ o.kind = "text" /\ HasSpan(o.content) /\ ~JsonLoads(SpanOf(o.content)).ok
    \/ Decodes(o) /\ \E e \in 1..Len(DecodedEntries(o)) : ~MatchesSchema(DecodedEntries(o)[e])

\* C4: after a batch whose oracle call raised, or whose reply has no span,
\* does not decode or does not match the schema, every track of the batch has
\* score 5, recommendation "maybe" and a reasoning naming the failure (stated
\* as claimed; the code accepts entries that do not match the schema)
C4_FailureGivesFallback ==
    (BatchFinished /\ FailedOutcome(pending.outcome))
    => \A k \in BatchRange :
          /\ IsFallback(tracks[k])
          /\ tracks[k].ai_reasoning \in ParsingErrorReasons \cup ApiErrorReasons

\* C9: as long as the log files can be written, no oracle behaviour (a
\* raised error, a reply without text, any reply text) makes
\* validate_tracks_for_party raise
C9_OracleFailuresContained == faults = 0 => vpc # "raised"

\* C9 witness: two batches, the second oracle reply had no text, the call
\* returned
C9_Witness ==
    /\ vpc = "returned" /\ faults = 0 /\ oracle_calls = 2
    /\ pending.outcome.kind = "none"

\* C10: without a client, validate_tracks_for_party calls no oracle, writes
\* no log, and returns the input tracks in order, each with score 5,
\* "maybe" and the reasoning "AI validation unavailable"
C10_NoCredentialShortCircuit ==
    (~client /\ vpc # "idle")
    => /\ vpc = "returned"
       /\ oracle_calls = 0
       /\ json_log = <<>> /\ human_log = <<>>
       /\ validated_tracks = tracks
       /\ \A k \in 1..Len(validated_tracks) :
             /\ validated_tracks[k].id = TrackIds[k]
             /\ validated_tracks[k].ai_party_score = Num(5)
             /\ validated_tracks[k].ai_recommendation = "maybe"
             /\ validated_tracks[k].ai_reasoning = "AI validation unavailable"

\* C10 witness: the call returned without a client for two or more tracks
C10_Witness == ~client /\ vpc = "returned" /\ Len(validated_tracks) >= 2

\* ceil(n / b) for b >= 1
Ceil(n, b) == (n + b - 1) \div b

\* C11: with a client, the oracle has been invoked once for every batch
\* started so far and never twice for one batch (oracle_calls is the number of
\* the batch in hand), a failed batch does not end the call while the log
\* files can be written, and at the return the oracle was invoked exactly
\* ceil(n / batch_size) times and every track has been handed back
C11_FailedBatchNotRetried ==
    client
    => /\ vpc = "loop" => oracle_calls = i \div batch_size /\ i < Len(tracks)
       /\ vpc = "calling" => oracle_calls = pending.batch_number
                              /\ oracle_calls = (i \div batch_size) + 1
       /\ vpc = "returned" => /\ oracle_calls = Ceil(Len(tracks), batch_size)
                               /\ Len(validated_tracks) = Len(tracks)
       /\ faults = 0 => vpc # "raised"

\* C11 witness: the oracle call of batch 1 raised, batch 2 was submitted all
\* the same, got a reply of its own, and the call returned after two oracle
\* calls
C11_Witness ==
    /\ client /\ vpc = "returned" /\ oracle_calls = 2
    /\ tracks[1].ai_reasoning = "API Error: oracle call failed"
    /\ pending.batch_number = 2 /\ pending.outcome.kind = "text"
    /\ tracks[Len(tracks)].ai_reasoning = "Great dance track"

\* C12: with a client, each batch started is numbered one more than the
\* batch before it (the first is 1), begins at the track right after the last
\* track of the batch before it, holds batch_size tracks or, when fewer are
\* left, all of them, and its prompt lists exactly those tracks in input
\* order; when the call returns, the last batch ended at track n, its number
\* is ceil(n / batch_size), and the returned list is the n input tracks in
\* input order
C12_ConsecutiveBatches ==
    [][/\ (client /\ vpc = "loop" /\ vpc' = "calling")
          => /\ pending'.batch_number = pending.batch_number + 1
             /\ pending'.lo = pending.hi + 1
             /\ pending'.hi = Min(pending'.lo + batch_size - 1, Len(tracks))
             /\ pending'.prompt.ids =
                   [k \in 1..(pending'.hi - pending'.lo + 1) |-> TrackIds[pending'.lo + k - 1]]
       /\ (client /\ vpc # "returned" /\ vpc' = "returned")
          => /\ pending'.hi = Len(tracks)
             /\ pending'.batch_number = Ceil(Len(tracks), batch_size)
             /\ Len(validated_tracks') = Len(tracks)
             /\ \A k \in 1..Len(tracks) : validated_tracks'[k].id = TrackIds[k]
      ]_vars

\* C12 witness: three tracks in batches of two: the call returned after a
\* second batch that held the third track alone
C12_Witness ==
    /\ client /\ vpc = "returned" /\ Len(tracks) = 3 /\ batch_size = 2
    /\ pending.batch_number = 2 /\ pending.lo = 3 /\ pending.hi = 3
    /\ Len(validated_tracks) = 3

\* a log entry of batch b that records prompt p in full and the oracle's reply
\* o (a call that raised has no reply: the error text stands for it)
FullEntry(e, b, p, o) ==
    /\ e.batch_number = b
    /\ e.complete
    /\ e.prompt = p
    /\ o.kind # "raise" => e.ai_response = o

\* C13 as claimed: while the log files can be written, once a batch attempt
\* has finished, successfully or not, both log files hold an entry with that
\* batch number, the prompt rendered for the batch and the oracle's raw reply
\* (the code logs the literal "ERROR" as the prompt of a failed attempt)
C13_EveryAttemptLoggedInFull ==
    (BatchFinished /\ faults = 0)
    => /\ \E k \in 1..Len(json_log) :
             FullEntry(json_log[k], pending.batch_number, pending.prompt, pending.outcome)
       /\ \E k \in 1..Len(human_log) :
             FullEntry(human_log[k], pending.batch_number, pending.prompt, pending.outcome)

\* C18 as claimed: once validate_tracks_for_party has returned, every
\* track's ai_recommendation is "yes", "no" or "maybe" and its ai_party_score
\* is a number from 1 to 10, whatever the reply held (the code copies the
\* reply's values unchecked)
C18_JudgmentInRange ==
    vpc = "returned"
    => \A k \in 1..Len(validated_tracks) :
          /\ validated_tracks[k].ai_recommendation \in {"yes", "no", "maybe"}
          /\ validated_tracks[k].ai_party_score.kind = "num"
          /\ validated_tracks[k].ai_party_score.val \in 1..10

\* the entries of a log are in one file, in batch-number order
OneFileInOrder(log) ==
    \A j, k \in 1..Len(log) :
       /\ log[j].file = log[k].file
       /\ j < k => log[j].batch_number <= log[k].batch_number

\* C19 as claimed: all entries written during one call of
\* validate_tracks_for_party are in a single pair of timestamp-suffixed files,
\* in batch-number order, however long the call takes (the code names the
\* files after the second in which each entry is written)
C19_SingleLogFilePerRun == OneFileInOrder(json_log) /\ OneFileInOrder(human_log)

\* the last entry of a log file is about batch b
LastEntryOf(log, b) == log # <<>> /\ log[Len(log)].batch_number = b

\* C25: the oracle calls are strictly sequential: every call issued so far
\* has ended except the one in hand, so at most one is outstanding; and the
\* call for the next batch is issued only after the call in hand has ended,
\* the tracks of the batches so far have all been handed to the result list,
\* and both log files end with an entry for the batch before
C25_SequentialOracleCalls ==
    /\ [](vpc # "calling" /\ oracle_calls > 0 => pending.outcome # NoOutcome)
    /\ [](vpc = "calling" => pending.outcome = NoOutcome /\ pending.batch_number = oracle_calls)
    /\ [][oracle_calls' # oracle_calls
          => /\ vpc = "loop" /\ vpc' = "calling"
             /\ oracle_calls' = oracle_calls + 1
             /\ pending'.lo = Len(validated_tracks) + 1
             /\ \A k \in 1..Len(validated_tracks) : validated_tracks[k] = tracks[k]
             /\ oracle_calls > 0
                  => /\ pending.outcome # NoOutcome
                     /\ pending.batch_number = oracle_calls
                     /\ pending.hi = Len(validated_tracks)
                     /\ LastEntryOf(json_log, oracle_calls)
                     /\ LastEntryOf(human_log, oracle_calls)]_vars

\* C25 witness: the call for batch 2 is outstanding; batch 1's two tracks are
\* in the result list and both log files end with the entry of batch 1
C25_Witness ==
    /\ vpc = "calling" /\ oracle_calls = 2 /\ pending.batch_number = 2
    /\ pending.outcome = NoOutcome
    /\ Len(validated_tracks) = 2 /\ pending.lo = 3
    /\ LastEntryOf(json_log, 1) /\ LastEntryOf(human_log, 1)

\* the decoded entries that fall on a track of the batch are all objects
AppliedEntriesAreObjects ==
    \A p \in 1..Min(Len(DecodedEntries(pending.outcome)), pending.hi - pending.lo + 1) :
       DecodedEntries(pending.outcome)[p].tok = "obj"

\* C26: after a batch whose reply decoded to an array of objects and whose
\* log entry was written, the track at place p of the batch has the values of
\* entry p whatever the entry's track_number, each missing key replaced on its
\* own by 5, "No reasoning provided" or "maybe"; the tracks of the batch
\* beyond the last entry are as they were, and the entries beyond the last
\* track of the batch change nothing, in the batch or after it
C26_AppliedByPosition ==
    (BatchFinished /\ Decodes(pending.outcome) /\ AppliedEntriesAreObjects /\ pending.f1 = "ok")
    => LET es == DecodedEntries(pending.outcome)
       IN  /\ \A k \in BatchRange :
                LET p == k - pending.lo + 1
                IN  IF p <= Len(es)
                    THEN /\ tracks[k].ai_party_score =
                              (IF es[p].party_score = AbsentScore THEN Num(5) ELSE es[p].party_score)
                         /\ tracks[k].ai_reasoning =
                              (IF es[p].reasoning = Absent THEN "No reasoning provided"
                               ELSE es[p].reasoning)
                         /\ tracks[k].ai_recommendation =
                              (IF es[p].recommendation = Absent THEN "maybe"
                               ELSE es[p].recommendation)
                    ELSE tracks[k] = FreshTrack(k)
           /\ \A k \in (pending.hi + 1)..Len(tracks) : tracks[k] = FreshTrack(k)

\* C26 witness: the last batch holds track 3 alone and its reply two entries,
\* the first numbered 2 and without reasoning, the second numbered 1: track 3
\* has the first entry's values with the reasoning defaulted
C26_Witness ==
    /\ BatchFinished /\ Decodes(pending.outcome) /\ pending.f1 = "ok"
    /\ pending.lo = 3 /\ pending.hi = 3
    /\ DecodedEntries(pending.outcome) = <<MismatchEntry, GoodEntry>>
    /\ tracks[3].ai_party_score = StrScore
    /\ tracks[3].ai_reasoning = "No reasoning provided"
    /\ tracks[3].ai_recommendation = "definitely"

\* C27: after a batch whose reply decoded to an array in which an entry that
\* falls on a track of the batch is not an object, every track of the batch,
\* those before that entry included, has score 5, "maybe" and one and the same
\* failure reasoning: never some tracks with the reply's values and some with
\* the fallback
C27_FallbackIsWholeBatch ==
    (BatchFinished /\ Decodes(pending.outcome) /\ ~AppliedEntriesAreObjects)
    => \E reason \in ParsingErrorReasons \cup ApiErrorReasons :
          \A k \in BatchRange :
             /\ tracks[k].ai_party_score = Num(5)
             /\ tracks[k].ai_recommendation = "maybe"
             /\ tracks[k].ai_reasoning = reason

\* C27 witness: a batch of two or more tracks got an array whose first entry
\* is an object and whose second is not; the first track, which had been
\* given the first entry's values, has the fallback like the others
C27_Witness ==
    /\ BatchFinished /\ Decodes(pending.outcome)
    /\ DecodedEntries(pending.outcome) = <<GoodEntry, Scalar>>
    /\ pending.hi > pending.lo /\ pending.f1 = "ok"
    /\ \A k \in BatchRange :
          /\ tracks[k].ai_party_score = Num(5)
          /\ tracks[k].ai_reasoning = "Parsing error: entry is not an object"

\* the entries of a log file about batch b
EntriesOf(log, b) == {k \in 1..Len(log) : log[k].batch_number = b}

\* the reply's score for the track at place p of the batch
ParsedScore(p) ==
    LET es == DecodedEntries(pending.outcome)
    IN  IF p > Len(es) THEN AbsentScore
        ELSE IF es[p].party_score = AbsentScore THEN Num(5) ELSE es[p].party_score

\* C28 as claimed: after a batch whose reply was parsed and whose log write
\* failed, the tracks of the batch have the scores the reply gave them, the
\* call has not raised, and each log file holds at most one entry for the
\* batch (the code runs the except branch: it replaces the scores by the
\* fallback, writes an "ERROR" entry behind what the failed write left, and
\* raises when that write fails too)
C28_LogFailureHarmless ==
    (BatchFinished /\ Decodes(pending.outcome) /\ AppliedEntriesAreObjects /\ pending.f1 # "ok")
    => /\ \A k \in BatchRange : tracks[k].ai_party_score = ParsedScore(k - pending.lo + 1)
       /\ vpc # "raised"
       /\ Cardinality(EntriesOf(human_log, pending.batch_number)) <= 1
       /\ Cardinality(EntriesOf(json_log, pending.batch_number)) <= 1

----------------------------------------------------------------------------
(* Properties of the Selector and of deduplication *)

InOutput(t, out) == \E k \in 1..Len(out) : out[k].id = t.id

\* C1: filter_party_tracks returns every track whose ai_recommendation is
\* "yes", whatever its score (stated as claimed; the code filters on the
\* score alone)
C1_YesAlwaysSelected ==
    spc = "returned"
    => \A k \in 1..Len(validated_tracks) :
          validated_tracks[k].ai_recommendation = "yes"
          => InOutput(validated_tracks[k], party_tracks)

\* the instance of id that comes first in the merged list
FirstInstance(id) ==
    all_tracks[CHOOSE k \in 1..Len(all_tracks) :
                  all_tracks[k].id = id /\ \A j \in 1..(k - 1) : all_tracks[j].id # id]

\* C6: for each id of the deduplicated list, the surviving track is the first
\* instance of that id in the merged list (stated as claimed; in the code the
\* last instance survives)
C6_FirstInstanceSurvives ==
    dpc = "done"
    => \A k \in 1..Len(unique_tracks) :
          unique_tracks[k] = FirstInstance(unique_tracks[k].id)

\* the ids of the merged list that are truthy, in order of first appearance
RECURSIVE FirstAppearances(_, _)
FirstAppearances(ts, seen) ==
    IF ts = <<>> THEN <<>>
    ELSE IF Truthy(Head(ts).id) /\ Head(ts).id \notin seen
         THEN <<Head(ts).id>> \o FirstAppearances(Tail(ts), seen \cup {Head(ts).id})
         ELSE FirstAppearances(Tail(ts), seen)

\* C7: the deduplicated list holds each id once, in order of first
\* appearance, holds no track with a missing or empty id, and is no longer
\* than the requested number of tracks
C7_DedupShape ==
    dpc = "done"
    => /\ \A j, k \in 1..Len(unique_tracks) : j # k => unique_tracks[j].id # unique_tracks[k].id
       /\ \A k \in 1..Len(unique_tracks) : Truthy(unique_tracks[k].id)
       /\ Len(unique_tracks) <= n_tracks
       /\ LET order == FirstAppearances(all_tracks, {})
          IN  /\ Len(unique_tracks) = Min(Len(order), n_tracks)
              /\ \A k \in 1..Len(unique_tracks) : unique_tracks[k].id = order[k]

\* C7 witness: a merged list with a repeated id, an empty id and more distinct
\* ids than requested has been deduplicated
C7_Witness ==
    /\ dpc = "done"
    /\ Len(unique_tracks) = n_tracks /\ n_tracks >= 1
    /\ Len(FirstAppearances(all_tracks, {})) > n_tracks
    /\ \E k \in 1..Len(all_tracks) : ~Truthy(all_tracks[k].id)
    /\ \E j, k \in 1..Len(all_tracks) : j < k /\ all_tracks[j].id = all_tracks[k].id /\ Truthy(all_tracks[j].id)

\* the place of the track with this id in the list handed to the Selector
PosIn(ts, id) == CHOOSE k \in 1..Len(ts) : ts[k].id = id

\* C16: the output of filter_party_tracks is in descending order of
\* ai_party_score, and two output tracks with the same score are in the order
\* they had in the input
C16_SortedStable ==
    spc = "returned"
    => \A j, k \in 1..Len(party_tracks) :
          j < k
          => /\ ScoreOrZero(party_tracks[j]).val >= ScoreOrZero(party_tracks[k]).val
             /\ ScoreOrZero(party_tracks[j]).val = ScoreOrZero(party_tracks[k]).val
                => PosIn(validated_tracks, party_tracks[j].id)
                     < PosIn(validated_tracks, party_tracks[k].id)

\* C16 witness: the input had two tracks of equal score followed by one of a
\* higher score; all three were selected and the last came out first
C16_Witness ==
    /\ spc = "returned" /\ Len(party_tracks) = 3
    /\ party_tracks[1].id = validated_tracks[3].id
    /\ party_tracks[2].ai_party_score = party_tracks[3].ai_party_score
    /\ party_tracks[1].ai_party_score # party_tracks[2].ai_party_score

\* how many times t is in the list
Count(ts, t) == Cardinality({k \in 1..Len(ts) : ts[k] = t})

\* C17: the output of filter_party_tracks holds every input track whose score
\* is min_score or more, holds no input track whose score is below min_score
\* and whose recommendation is not "yes", and holds only input tracks, none
\* more often than the input does
C17_SelectionRule ==
    spc = "returned"
    => /\ \A k \in 1..Len(validated_tracks) :
             ScoreOrZero(validated_tracks[k]).val >= min_score
             => InOutput(validated_tracks[k], party_tracks)
       /\ \A k \in 1..Len(validated_tracks) :
             (/\ ScoreOrZero(validated_tracks[k]).val < min_score
              /\ validated_tracks[k].ai_recommendation # "yes")
             => ~InOutput(validated_tracks[k], party_tracks)
       /\ \A j \in 1..Len(party_tracks) :
             /\ Count(validated_tracks, party_tracks[j]) >= 1
             /\ Count(party_tracks, party_tracks[j]) <= Count(validated_tracks, party_tracks[j])

\* C17 witness: a track whose score equals min_score was selected, and a
\* track below min_score with recommendation "no" was not
C17_Witness ==
    /\ spc = "returned"
    /\ \E k \in 1..Len(party_tracks) : party_tracks[k].ai_party_score = Num(min_score)
    /\ \E k \in 1..Len(validated_tracks) :
          /\ validated_tracks[k].ai_party_score = Num(3)
          /\ validated_tracks[k].ai_recommendation = "no"
          /\ ~InOutput(validated_tracks[k], party_tracks)

----------------------------------------------------------------------------
(* Properties of clustering and of the generate command *)

ConfiguredFeatures == feature_columns \cup {"name_energy"}

InLabeled(row) == \E k \in 1..Len(df_clustered) : df_clustered[k].row.id = row.id

CarriedFeature(col) == \E k \in 1..Len(df) : Cell(df[k], col).kind # "absent"

Eligible == Cardinality(FeatureDataIndex(df))

\* every row has a name, so that the name_energy step passes
AllNamed == df # <<>> /\ \A k \in 1..Len(df) : df[k].name # <<Absent>>

ClusterCalled == cpc \in {"raised", "returned"}

\* C14 as claimed: whenever k exceeds the number of eligible tracks,
\* cluster_tracks fails with the cluster-count error of the clustering
\* primitive and returns no labeled output (with no eligible track at all the
\* code fails with the no-valid-metadata error instead)
C14_TooManyClustersInvalidCount ==
    (ClusterCalled /\ n_clusters > Eligible)
    => /\ cpc = "raised"
       /\ cluster_error = TooFewSamplesError
       /\ df_clustered = <<>>

\* C14 amended: whenever k exceeds the number of eligible tracks,
\* cluster_tracks fails and returns no labeled output; the error is the
\* clustering primitive's n_samples < n_clusters error when every track has a
\* name and at least one is eligible, the no-valid-metadata error when every
\* track has a name and none is eligible, and the error of the name_energy
\* step when the input is empty or a track has no name
C14_TooManyClustersFails ==
    (ClusterCalled /\ n_clusters > Eligible)
    => /\ cpc = "raised"
       /\ df_clustered = <<>>
       /\ (AllNamed /\ Eligible >= 1) => cluster_error = TooFewSamplesError
       /\ (AllNamed /\ Eligible = 0) => cluster_error = NoValidMetadataError
       /\ ~AllNamed => cluster_error \in {NameKeyError, NameAttributeError}

\* C14 witness: three clusters were asked of an input with two eligible
\* tracks among three named ones, and the call failed in the clustering
\* primitive
C14_Witness ==
    /\ cpc = "raised" /\ AllNamed /\ Len(df) = 3
    /\ Eligible = 2 /\ n_clusters = 3
    /\ cluster_error = TooFewSamplesError

\* C15 as claimed: whenever no track is eligible, the empty input included,
\* cluster_tracks fails with the no-valid-metadata error (on the empty input
\* the code fails earlier, with KeyError: 'name')
C15_NoEligibleInsufficientData ==
    (ClusterCalled /\ Eligible = 0)
    => /\ cpc = "raised"
       /\ cluster_error = NoValidMetadataError

\* release_date is a text, not a missing key and not None
IsText(release_date) == release_date \notin {<<Absent>>, <<NoneVal>>}

\* C20: prepare_data never fails because of a release date (when it fails, a
\* track has a name that is None), and in the rows it returns release_year is
\* the value of the first four characters of the release date when int()
\* accepts them, in particular their decimal value when they are all digits,
\* and 2020 when the release date is missing, None, empty or rejected
C20_ReleaseYearNeverFails ==
    /\ gpc = "aborted at preparation"
       => \E k \in 1..Len(unique_tracks) : unique_tracks[k].name = <<NoneVal>>
    /\ (gpc = "running" /\ cpc = "idle")
       => /\ Len(df) = Len(unique_tracks)
          /\ \A k \in 1..Len(df) :
                LET release_date == unique_tracks[k].release_date
                    first4 == Slice(release_date, 0, 4)
                IN  /\ df[k].release_year.kind = "num"
                    /\ (~IsText(release_date) \/ release_date = <<>>)
                       => df[k].release_year = Num(2020)
                    /\ (IsText(release_date) /\ IntOf(first4).ok)
                       => df[k].release_year = Num(IntOf(first4).val)
                    /\ (IsText(release_date) /\ Len(first4) = 4
                        /\ \A c \in 1..4 : IsDigit(first4[c]))
                       => df[k].release_year = Num(DecimalValue(first4))
                    /\ (IsText(release_date) /\ ~IntOf(first4).ok)
                       => df[k].release_year = Num(2020)

\* C20 witness: prepare_data returned rows for a track released in 1999 and
\* for a track whose release date int() rejects, which got 2020
C20_Witness ==
    /\ gpc = "running" /\ cpc = "idle" /\ Len(df) = 2
    /\ unique_tracks[1].release_date = <<"1", "9", "9", "9", "-", "0", "5">>
    /\ df[1].release_year = Num(1999)
    /\ unique_tracks[2].release_date = <<"9", "9", "-", "0", "1">>
    /\ df[2].release_year = Num(2020)

\* the keyword occurs in the lower-cased title
Occurs(keyword, title) == \E j \in 1..Len(title) : keyword \in KeywordsIn(Lower(title[j]))

\* C21: in tenths, the name_energy of every prepared row is 5 plus one for
\* each high-energy keyword that occurs in the lower-cased title minus one for
\* each low-energy keyword that occurs in it, brought into 0..10; it is never
\* below 0 or above 10
C21_NameEnergyTenths ==
    (gpc = "running" /\ cpc = "idle")
    => \A k \in 1..Len(df) :
          LET title == unique_tracks[k].name
              high == Cardinality({w \in high_energy_keywords : Occurs(w, title)})
              low == Cardinality({w \in low_energy_keywords : Occurs(w, title)})
              raw == 5 + high - low
          IN  /\ df[k].name_energy.kind = "num"
              /\ df[k].name_energy.val \in 0..10
              /\ raw \in 0..10 => df[k].name_energy.val = raw
              /\ raw < 0 => df[k].name_energy.val = 0
              /\ raw > 10 => df[k].name_energy.val = 10

\* C21 witness: a title with every high-energy keyword and one low-energy
\* keyword was prepared, and its name_energy is the upper limit
C21_Witness ==
    /\ gpc = "running" /\ cpc = "idle" /\ Len(df) = 1
    /\ Occurs("groove", unique_tracks[1].name) /\ Occurs("ballad", unique_tracks[1].name)
    /\ df[1].name_energy = Num(10)

\* the lookups of a track obtained no data
NoData(l) == l.info # "data" /\ l.tags # "data" /\ l.similar # "data" /\ l.artist # "data"

\* the part of C22 that does not depend on what an empty block is:
\* enrich_tracks never raises, never changes its input, and with a network
\* returns the same tracks in the same order, each with a lastfm block
EnrichFrame ==
    /\ epc # "raised"
    /\ \A k \in 1..Len(lf_tracks) : lf_tracks[k] = EnrichInput(k)
    /\ (epc = "returned" /\ network)
       => /\ Len(enriched_tracks) = Len(lf_tracks)
          /\ \A k \in 1..Len(enriched_tracks) :
                /\ enriched_tracks[k].id = lf_tracks[k].id
                /\ enriched_tracks[k].lastfm.present

\* C22 as claimed: whatever the lookups do, enrich_tracks returns the same
\* tracks in order, input unmodified, each with a lastfm block that is the
\* empty dict when no data was obtained (after a raising tag, similar-track or
\* artist lookup the code leaves empty placeholder lists in the block)
C22_EmptyBlockWhenNoData ==
    /\ EnrichFrame
    /\ (epc = "returned" /\ network)
       => \A k \in 1..Len(enriched_tracks) :
             NoData(lookups[k]) => enriched_tracks[k].lastfm = EmptyBlock

\* C22 amended: enrich_tracks never raises and never changes its input; with
\* a network it returns the same tracks in order, each with a lastfm block
\* that holds the data of the lookups that returned some, an empty
\* placeholder for a tag, similar-track or artist lookup that raised, and is
\* the empty dict exactly when get_track failed or no lookup returned data
\* and none of those three raised; without a network it returns its input,
\* with no lastfm block
C22_EnrichSwallowsFailures ==
    /\ EnrichFrame
    /\ (epc = "returned" /\ ~network) => enriched_tracks = lf_tracks /\ lookups = <<>>
    /\ (epc = "returned" /\ network)
       => \A k \in 1..Len(enriched_tracks) :
             LET l == lookups[k]
                 b == enriched_tracks[k].lastfm
             IN  /\ b = EmptyBlock
                    <=> \/ l.get_track # "ok"
                        \/ NoData(l) /\ "raise" \notin {l.tags, l.similar, l.artist}
                 /\ l.get_track = "ok"
                    => /\ b.info = "data" <=> l.info = "data"
                       /\ b.tags = "data" <=> l.tags = "data"
                       /\ b.similar = "data" <=> l.similar = "data"
                       /\ b.artist = "data" <=> l.artist = "data"
                       /\ b.tags = "placeholder" <=> l.tags = "raise"
                       /\ b.similar = "placeholder" <=> l.similar = "raise"
                       /\ b.artist = "placeholder" <=> l.artist = "raise"
                       /\ b.info # "placeholder"

\* C22 witness: two tracks were enriched: get_track failed with an unexpected
\* exception for the first, whose block is empty, and the tag lookup raised
\* for the second, whose block holds a placeholder and no data
C22_Witness ==
    /\ epc = "returned" /\ network /\ Len(enriched_tracks) = 2
    /\ lookups[1].get_track = "error" /\ enriched_tracks[1].lastfm = EmptyBlock
    /\ lookups[2].tags = "raise" /\ NoData(lookups[2])
    /\ enriched_tracks[2].lastfm.tags = "placeholder"

\* the labeled rows carrying label c, and how many of the first k carry it
Carrying(c) == {k \in 1..Len(df_clustered) : df_clustered[k].cluster = c}
RankIn(c, k) == Cardinality({j \in Carrying(c) : j <= k})

\* C23: when cluster_tracks returns, the summary lists exactly the labels in
\* use in ascending order, the size of a cluster is the number of labeled
\* tracks carrying its label, its sample tracks are its first min(3, size)
\* tracks in input order, and the labeled output is the eligible tracks in
\* their input order
C23_SummaryOrderSizeSamples ==
    cpc = "returned"
    => /\ \A j, k \in 1..Len(cluster_analysis) :
            j < k => cluster_analysis[j].cluster_id < cluster_analysis[k].cluster_id
       /\ {cluster_analysis[j].cluster_id : j \in 1..Len(cluster_analysis)}
             = {df_clustered[k].cluster : k \in 1..Len(df_clustered)}
       /\ \A j \in 1..Len(cluster_analysis) :
            LET c == cluster_analysis[j].cluster_id
                size == Cardinality(Carrying(c))
                sample_tracks == cluster_analysis[j].sample_tracks
            IN  /\ cluster_analysis[j].size = size
                /\ Len(sample_tracks) = (IF size < 3 THEN size ELSE 3)
                /\ \A k \in Carrying(c) :
                     RankIn(c, k) <= 3 => sample_tracks[RankIn(c, k)] = df_clustered[k].row.id
       /\ {df_clustered[k].row.pos : k \in 1..Len(df_clustered)} = FeatureDataIndex(df)
       /\ \A k \in 1..Len(df_clustered) : df_clustered[k].row = df[df_clustered[k].row.pos]
       /\ \A j, k \in 1..Len(df_clustered) :
            j < k => df_clustered[j].row.pos < df_clustered[k].row.pos

\* C23 witness: five eligible tracks went into two clusters, and cluster 1 got
\* the second to the fifth of them, more than the summary samples
C23_Witness ==
    /\ cpc = "returned" /\ Len(df_clustered) = 5
    /\ Len(cluster_analysis) = 2
    /\ cluster_analysis[2].cluster_id = 1 /\ cluster_analysis[2].size = 4
    /\ cluster_analysis[2].sample_tracks = <<df[2].id, df[3].id, df[4].id>>

\* the one cluster of a run with n_clusters = 1, and its totals
TheCluster == [k \in 1..Len(df_clustered) |-> df_clustered[k].row]
Total(col) == ColumnSum(TheCluster, col)
HasColumn(col) == \E k \in 1..Len(df) : Cell(df[k], col).kind # "absent"
StyleOf == cluster_analysis[1].style_description
Labels == {StyleOf[k] : k \in 1..Len(StyleOf)}
PopularityLabels == {"Popular hits", "Deep cuts"}
EraLabels == {"Classic oldies", "80s", "90s", "2000s", "2010s", "Recent releases"}
EnergyLabels == {"High-energy", "Mellow"}
DurationLabels == {"Extended tracks", "Radio-friendly"}
RuleOf(label) ==
    IF label \in PopularityLabels THEN 1 ELSE IF label \in EraLabels THEN 2
    ELSE IF label \in EnergyLabels THEN 3 ELSE IF label \in DurationLabels THEN 4 ELSE 0

\* no tier applies: the mean popularity is in [30, 70] or there is no
\* popularity, the mean energy is in [0.4, 0.6], the mean duration is in
\* [180 s, 300 s]
NoTierApplies ==
    LET n == Len(df_clustered)
    IN  /\ HasColumn("popularity") => (30 * n <= Total("popularity") /\ Total("popularity") <= 70 * n)
        /\ 4 * n <= Total("name_energy") /\ Total("name_energy") <= 6 * n
        /\ HasColumn("duration_ms")
        /\ 180000 * n <= Total("duration_ms") /\ Total("duration_ms") <= 300000 * n

\* C24 as claimed: a cluster for which no tier applies gets "Mixed style"
\* (the era rule gives it the label of its mean release year)
C24_MidClusterMixedStyle ==
    (cpc = "returned" /\ NoTierApplies) => StyleOf = <<"Mixed style">>

\* C24 amended: the style label is the list of the labels of the four rules
\* in the order popularity tier (mean > 70 / < 30), era bucket, energy tier
\* (mean > 0.6 / < 0.4), duration tier (mean > 300 s / < 180 s); the era rule
\* labels every mean release year, 2020 and later as "Recent releases", and
\* every prepared track has a release year, so the label is never "Mixed
\* style": a cluster for which no tier applies gets its era label alone
C24_StyleLabelRules ==
    cpc = "returned"
    => LET n == Len(df_clustered)
       IN  /\ "Popular hits" \in Labels <=> (HasColumn("popularity") /\ Total("popularity") > 70 * n)
           /\ "Deep cuts" \in Labels <=> (HasColumn("popularity") /\ Total("popularity") < 30 * n)
           /\ "High-energy" \in Labels <=> Total("name_energy") > 6 * n
           /\ "Mellow" \in Labels <=> Total("name_energy") < 4 * n
           /\ "Extended tracks" \in Labels <=> (HasColumn("duration_ms") /\ Total("duration_ms") > 300000 * n)
           /\ "Radio-friendly" \in Labels <=> (HasColumn("duration_ms") /\ Total("duration_ms") < 180000 * n)
           /\ "Classic oldies" \in Labels <=> Total("release_year") < 1980 * n
           /\ "2000s" \in Labels <=> (2000 * n <= Total("release_year") /\ Total("release_year") < 2010 * n)
           /\ "Recent releases" \in Labels <=> Total("release_year") >= 2020 * n
           /\ Cardinality(Labels \cap EraLabels) = 1
           /\ \A j, k \in 1..Len(StyleOf) : j < k => RuleOf(StyleOf[j]) < RuleOf(StyleOf[k])
           /\ "Mixed style" \notin Labels
           /\ NoTierApplies => (Len(StyleOf) = 1 /\ StyleOf[1] \in EraLabels)

\* C24 witness: two tracks of popularity 20 and 70, of 1979 and 2021, with an
\* energetic and a quiet name, 300 s long, form a cluster for which no tier
\* applies, and its style label is "2000s"
C24_Witness ==
    /\ cpc = "returned" /\ Len(df_clustered) = 2 /\ NoTierApplies
    /\ Total("popularity") = 90 /\ Total("release_year") = 4000
    /\ Total("name_energy") = 10
    /\ StyleOf = <<"2000s">>

\* the items of the replies so far, page after page
RECURSIVE PagesInOrder(_, _)
PagesInOrder(requests, r) ==
    IF r > Len(requests) THEN <<>>
    ELSE [k \in 1..requests[r].items |-> Item(r, k)] \o PagesInOrder(requests, r + 1)

\* no reply held more items than its request asked for
PagesWithinRequest ==
    \A r \in 1..Len(page_requests) : page_requests[r].items <= page_requests[r].limit

\* C29: get_saved_tracks(limit) ends whatever the page replies are; every
\* iteration either gets an empty page (or an error) and ends the call or adds
\* at least one track, so there are never more than limit page requests; and
\* when it returns after replies that held at most the requested number of
\* items, it returns at most limit tracks, those of the pages in page order
C29_SavedTracksTerminates ==
    /\ <>(ppc \in {"returned", "raised"})
    /\ [](Len(page_requests) <= sv_limit)
    /\ [][page_requests' # page_requests
          => \/ ppc' \in {"returned", "raised"} /\ sv_tracks' = sv_tracks
                /\ page_requests'[Len(page_requests')].items = 0
             \/ Len(sv_tracks') > Len(sv_tracks)]_vars
    /\ [](ppc = "returned" => sv_tracks = PagesInOrder(page_requests, 1))
    /\ []((ppc = "returned" /\ PagesWithinRequest) => Len(sv_tracks) <= sv_limit)

\* C29 witness: three tracks were asked for and every page held one item:
\* the call returned after three page requests with the three items in order
C29_Witness ==
    /\ ppc = "returned" /\ sv_limit = 3 /\ Len(page_requests) = 3
    /\ PagesWithinRequest
    /\ sv_tracks = <<Item(1, 1), Item(2, 1), Item(3, 1)>>

\* the ids of the batches that succeeded
RECURSIVE AddedBy(_)
AddedBy(as) ==
    IF as = <<>> THEN 0
    ELSE (IF Head(as).ok THEN Head(as).hi - Head(as).lo + 1 ELSE 0) + AddedBy(Tail(as))

\* C30: the command adds ids only once the playlist exists; batch j is the
\* ids 100 (j - 1) + 1 .. min(100 j, number of ids) of the valid ids in file
\* order, so the batches are consecutive, of at most 100 ids, and none is
\* attempted twice; a failing batch does not end the loop: at the end every
\* batch has been attempted; added_count is the number of ids in the batches
\* that succeeded, never more than the number of valid ids
C30_BatchesAttemptedOnce ==
    /\ attempts # <<>> => playlist_created
    /\ lpc \in {"adding", "done"} =>
          /\ Len(track_ids) = Cardinality({k \in 1..Len(pl_tracks) : pl_tracks[k].id # 0})
          /\ \A k \in 1..Len(track_ids) : track_ids[k] # 0
          /\ \A j, k \in 1..Len(track_ids) : j < k => track_ids[j] < track_ids[k]
    /\ \A j \in 1..Len(attempts) :
          /\ attempts[j].lo = 100 * (j - 1) + 1
          /\ attempts[j].hi = Min(100 * j, Len(track_ids))
          /\ attempts[j].lo <= attempts[j].hi
    /\ lpc = "adding" => 100 * Len(attempts) < Len(track_ids)
    /\ lpc = "done" => Len(attempts) = Ceil(Len(track_ids), 100)
    /\ added_count = AddedBy(attempts)
    /\ added_count <= Len(track_ids)

\* C30 witness: a file of 201 tracks, all with an id: three batches were
\* attempted, the second failed, the third was added all the same, and
\* added_count is 101
C30_Witness ==
    /\ lpc = "done" /\ Len(track_ids) = 201 /\ Len(attempts) = 3
    /\ attempts[1].ok /\ ~attempts[2].ok /\ attempts[3].ok
    /\ attempts[3].lo = 201 /\ attempts[3].hi = 201
    /\ added_count = 101

\* C5 as claimed: when the log files can be written, a run of generate whose
\* fetch succeeded completes or aborts at the clustering stage, never later
\* (the code aborts in the closing summary when no track was selected)
C5_AbortsOnlyAtClustering ==
    faults = 0 => gpc \in {"running", "completed", "aborted at clustering"}

====
